---- MODULE Spec2Model ----
(***************************************************************************)
(* Model of the fund / stock synchronisation tasks of backend/task:        *)
(*   fundsync  : index.sync_task_runner, FundDataProcessor, FundDatabase   *)
(*   stocksync : index.sync_task_runner, StockDataProcessor, db_operations *)
(*   task      : index.run_fundsync_task, index.run_stocksync_task         *)
(* Spec       one task run (funds or stocks) from its start.               *)
(* SpecEngine the batch engines entered with arbitrary record lists.       *)
(* SpecPolicy    one operation under the retry policy.                     *)
(* SpecCleaner   the record cleaners applied to arbitrary tables.          *)
(* SpecReconcile one market reconciled against arbitrary stored rows.      *)
(* SpecCycles    two consecutive cycles over one store.                    *)
(* SpecCache     MemoryCache of backend/web/cache.py.                      *)
(* SpecLimiter   RateLimiter of backend/web/cache.py.                      *)
(***************************************************************************)
EXTENDS Integers, Sequences, FiniteSets, TLC

VARIABLES
    task,            \* what runs: "fundsync" | "stocksync" of task/index.py, or a part alone
    batch_size,      \* FundDatabase.batch_size / process_market_records(batch_size=)
    \* ---- funds ----
    f_pc,            \* position inside the funds run
    fund_tasks,      \* FundDataProcessor.fund_tasks (source kinds whose api function exists)
    f_idx,           \* index of the source being fetched in collect_all_fund_data
    f_attempt,       \* loop variable `attempt` of safe_get_data
    fund_data,       \* dict fund_data of collect_all_fund_data (<<>> = key absent)
    success_types,   \* set success_types
    failed_types,    \* list failed_types
    final_funds,     \* integrate_fund_data's final_funds
    seen_codes,      \* integrate_fund_data's domestic_codes (second return value)
    existing_codes,  \* db.get_existing_fund_codes()
    new_codes, removed_codes, update_codes,   \* analyze_data_differences' result
    ins_batches,     \* insert_new_funds' batches
    ins_status,      \* per insert batch: "pending" | "applied" | "failed"
    upd_batches,     \* update_existing_funds' batches
    upd_status,      \* per update batch: "pending" | "applied" | "failed"
    upd_exec,        \* per update batch, whether its execute_values call raised:
                     \* "pending" | "threw" | "no_throw"
    marked_deleted,  \* codes whose mark-deleted statement committed
    fund_db,         \* fund_info rows: code -> "?" (not yet read) | "absent" | "L" | "D"
    fund_price,      \* fund_info.latest_price of these rows ("?", "absent" alike)
    storage_calls,   \* storage operations invoked in this run
    merge_input,     \* the fund_data handed to integrate_fund_data (before its del)
    \* ---- stocks ----
    s_pc,            \* position inside the stocks run
    factory_ok,      \* create_data_factory("stock") succeeds (akshare has the functions)
    existing_symbols_map,  \* get_existing_stock_symbols_by_market(engine)
    s_now,           \* datetime.datetime.now() of the run's open checks: second of the day
    s_month,         \* ... and its month
    s_idx,           \* index of the market in market_configs
    s_attempt,       \* loop variable `attempt` of safely_get_market_data
    processed_markets, skipped_markets,   \* counters of collect_all_stock_data
    s_open,          \* markets whose check_market_open_status was true
    s_fetched,       \* markets whose get_data_func was invoked
    s_fetch_failed,  \* markets whose safely_get_market_data returned None
    s_fetch_ok,      \* markets whose safely_get_market_data returned data
    s_synced,        \* markets handed to process_market_records
    exist_records, new_records, removed_symbols,   \* process_market_records' arguments
    s_upd_status,    \* per update batch: "pending" | "done" | "error" | "applied" | "failed"
    s_upd_exec,      \* per update batch, what its statements did: [mode, rows, committed]
    failed_update_symbols,  \* process_market_records: symbols the update workers appended
    s_ins_status,    \* per insert batch: "pending" | "done" | "error" | "applied" | "failed"
    total_updated, total_inserted,   \* process_market_records' aggregate
    total_update_duration, total_insert_duration,   \* its duration sums, in ticks
    s_marked,        \* symbols whose mark-deleted statement committed
    market_result,   \* process_market_records' return value reached its caller
    runner_result,   \* what sync_task_runner handed to its caller
    task_result,     \* what run_fundsync_task / run_stocksync_task returned
    \* ---- error handling of BaseDataProcessor: on one error in SpecPolicy, on the
    \* ---- last attempt of the last fetch in a run (see FetchTrace)
    p_pc,            \* "idle" | "raised" | "classified" | "decided" | "delayed", or
                     \* in a run "retry" | "data" | "failure"
    p_error,         \* the exception: its type name and the phrases of its message
    p_kind,          \* _classify_error's result ("" when nothing was raised)
    p_attempt,       \* argument attempt
    p_max,           \* argument max_retry
    p_base,          \* argument base_delay
    p_retry,         \* _should_retry's result
    p_delay,         \* _get_retry_delay's result
    \* ---- one call of a record cleaner (SpecCleaner)
    c_pc,            \* "idle" | "called" | "returned" | "raised"
    c_cleaner,       \* the cleaner called: a market of stock_cleaners.py or a fund kind
    c_table,         \* its argument, the upstream table
    c_out,           \* the records it returned
    \* ---- one market's reconciliation against storage (SpecReconcile)
    r_pc,            \* "idle" | "read" | "reconcile" | "update" | "insert" | "mark" |
                     \* "returned" | "raised"
    market_name,     \* the market being synced
    stock_info,      \* table stock_info: market -> symbol -> row
    existing_symbols,    \* existing_symbols_map.get(market_name, set())
    cleaned_dataframe,   \* the cleaned rows, in table order
    chunk_i,         \* loop variable i of the chunk loop
    r_exist_records, r_new_records,   \* exist_records, new_records being built
    r_new_symbols,   \* new_symbols
    r_removed_symbols,   \* removed_symbols
    \* ---- consecutive sync cycles (SpecCycles)
    cycle,           \* 1: the first invocation of the task, 2: the next one
    failed_keys,     \* keys whose insert or update did not take effect in cycle 1
    \* ---- web/cache.py: MemoryCache and RateLimiter (SpecCache, SpecLimiter)
    clock,           \* the latest reading of time.time()
    _cache,          \* MemoryCache._cache: key -> entry
    _access_times,   \* MemoryCache._access_times: key -> time
    latest_set,      \* per key, the latest set not followed by its delete or a clear
    cache_call,      \* the latest MemoryCache call: its name, key and return value
    _requests,       \* RateLimiter._requests: client_id -> list of times
    max_requests, window_seconds,    \* the arguments of rate_limited
    admitted,        \* per client, the admitted calls no older than a window
    limiter_call     \* the latest rate_limited call: its client and is_allowed's result

fvars == <<f_pc, fund_tasks, f_idx, f_attempt, fund_data,
           success_types, failed_types, final_funds, seen_codes, existing_codes,
           new_codes, removed_codes, update_codes, ins_batches, ins_status,
           upd_batches, upd_status, upd_exec, marked_deleted,
           fund_db, fund_price, storage_calls,
           merge_input>>

svars == <<s_pc, factory_ok, existing_symbols_map, s_now, s_month, s_idx, s_attempt,
           processed_markets,
           skipped_markets, s_open, s_fetched, s_fetch_failed, s_fetch_ok, s_synced,
           exist_records, new_records, removed_symbols, s_upd_status, s_upd_exec,
           failed_update_symbols, s_ins_status,
           total_updated, total_update_duration, total_inserted, total_insert_duration,
           s_marked, market_result>>

pvars == <<p_pc, p_error, p_kind, p_attempt, p_max, p_base, p_retry, p_delay>>

cvars == <<c_pc, c_cleaner, c_table, c_out>>

\* the variables of the specifications of single components
rvars == <<r_pc, market_name, stock_info, existing_symbols, cleaned_dataframe, chunk_i,
           r_exist_records, r_new_records, r_new_symbols, r_removed_symbols>>

yvars == <<cycle, failed_keys>>

wvars == <<clock, _cache, _access_times, latest_set, cache_call, _requests,
           max_requests, window_seconds, admitted, limiter_call>>

xvars == <<cvars, rvars, yvars, wvars>>

vars == <<task, batch_size, xvars, pvars, fvars, svars, runner_result, task_result>>

----------------------------------------------------------------------------
\* Bounds of the model
MaxExtraRows == 0     \* a fetched table has one row; MaxExtraRows more rows per run in all
MaxBatchSize == 2     \* batch_size ranges over 1..MaxBatchSize
MaxRecords == 5       \* records handed to a batch engine in one run
MaxPhrases == 2       \* phrases in one error message
MaxAttempts == 5      \* _should_retry / _get_retry_delay: attempt in 0..MaxAttempts,
                      \* max_retry in 1..MaxAttempts
MaxUpdates == 3       \* process_market_records: up to MaxUpdates records to update
MaxBaseDelay == 3     \* _get_retry_delay: base_delay in 0..MaxBaseDelay

\* Program constants
max_retry == 3        \* FUND_CONFIG["max_retry"], RETRY_CONFIG["max_retry"]
fund_retry_delay == 5     \* FUND_CONFIG["retry_delay"]
stock_retry_delay == 2    \* RETRY_CONFIG["retry_delay"]

\* p_delay when an attempt is not followed by time.sleep
NoSleep == -1

\* is_time_between's default tolerance_seconds
tolerance_seconds == 30

Codes == {"X", "Y"}                  \* codes the upstream sources deliver
DbCodes == Codes \cup {"Z"}          \* codes of fund_info rows ("Z": no longer delivered)
None == "None"
NaN == "nan"
RawPrices == {NaN, "bad", "10"}      \* null cell, unparseable cell, numeric cell
RowCodes == Codes \cup {""}          \* "" : a row whose code or name cell is empty

\* latest_price of the rows found Live by get_existing_fund_codes
OldPrice == "9"

\* FUND_TYPES, in the order of the dict
FundOrder == <<"OpenFund", "MoneyFund", "ExchangeFund", "QdiiEU", "QdiiAsia">>
FundTypes == {FundOrder[i] : i \in 1..Len(FundOrder)}
DomesticOrder == <<"ExchangeFund", "OpenFund", "MoneyFund">>
QdiiOrder == <<"QdiiEU", "QdiiAsia">>

ErrorKinds == {"CHUNKED_ENCODING", "TIMEOUT", "NETWORK", "RATE_LIMIT", "SERVER_ERROR",
               "AUTH_ERROR", "NOT_FOUND", "NO_DATA", "PANDAS_MISMATCH",
               "DATA_FORMAT_ERROR", "DATABASE_ERROR", "UNKNOWN"}

Min(a, b) == IF a < b THEN a ELSE b

SeqsUpTo(S, n) == UNION {[1..k -> S] : k \in 1..n}

----------------------------------------------------------------------------
\* BaseDataProcessor._classify_error: the keyword lists of its rules, in its order
ChunkedKeywords == {"chunked encoding"}
TimeoutKeywords == {"timeout", "timed out"}
NetworkKeywords == {"connection", "network", "unreachable"}
RateLimitKeywords == {"rate limit", "too many requests", "429"}
ServerKeywords == {"500", "502", "503", "504", "server error"}
AuthKeywords == {"unauthorized", "forbidden", "401", "403"}
NotFoundKeywords == {"not found", "404"}
NoDataKeywords == {"empty", "no data"}
MismatchKeywords == {"length mismatch", "expected axis has 0 elements"}
FormatKeywords == {"json", "parse", "decode", "format"}
DatabaseKeywords == {"database"}
DatabaseTypes == {"DatabaseError", "OperationalError"}

\* Phrases an error message is made of: the keywords, some of them in other letter
\* cases, and a phrase no rule looks for
CasedPhrases == {"TIMEOUT", "Timed Out", "Connection", "Rate Limit", "Server Error",
                 "Not Found", "JSON", "Database", "Chunked Encoding"}
Phrases ==
    ChunkedKeywords \cup TimeoutKeywords \cup NetworkKeywords \cup RateLimitKeywords
    \cup ServerKeywords \cup AuthKeywords \cup NotFoundKeywords \cup NoDataKeywords
    \cup MismatchKeywords \cup FormatKeywords \cup DatabaseKeywords
    \cup CasedPhrases \cup {"boom"}

\* type(error).__name__
ErrorTypeNames == {"Exception", "ChunkedEncodingError", "DatabaseError", "OperationalError"}

\* str.lower() on a phrase / a type name
Lower(text) ==
    CASE text = "TIMEOUT" -> "timeout"
      [] text = "Timed Out" -> "timed out"
      [] text = "Connection" -> "connection"
      [] text = "Rate Limit" -> "rate limit"
      [] text = "Server Error" -> "server error"
      [] text = "Not Found" -> "not found"
      [] text = "JSON" -> "json"
      [] text = "Database" -> "database"
      [] text = "Chunked Encoding" -> "chunked encoding"
      [] text = "Exception" -> "exception"
      [] text = "ChunkedEncodingError" -> "chunkedencodingerror"
      [] text = "DatabaseError" -> "databaseerror"
      [] text = "OperationalError" -> "operationalerror"
      [] OTHER -> text

\* the exceptions get_func can raise: a type name and a message of up to n phrases
RECURSIVE PhraseSets(_)
PhraseSets(n) ==
    IF n = 0 THEN {{}}
    ELSE LET shorter == PhraseSets(n - 1)
         IN  shorter \cup {q \cup {ph} : q \in shorter, ph \in Phrases}

Errors(n) == {[type |-> t, msg |-> m] : t \in ErrorTypeNames, m \in PhraseSets(n)}

NoError == [type |-> "", msg |-> {}]

\* error_str = str(error).lower()
error_str(error) == {Lower(ph) : ph \in error.msg}

\* any(keyword in error_str for keyword in keywords)
AnyKeyword(text, keywords) == text \cap keywords # {}

\* _classify_error, the rules from the rate-limit rule on
ClassifyFromRateLimit(type_name, text) ==
    IF AnyKeyword(text, RateLimitKeywords) THEN "RATE_LIMIT"
    ELSE IF AnyKeyword(text, ServerKeywords) THEN "SERVER_ERROR"
    ELSE IF AnyKeyword(text, AuthKeywords) THEN "AUTH_ERROR"
    ELSE IF AnyKeyword(text, NotFoundKeywords) THEN "NOT_FOUND"
    ELSE IF AnyKeyword(text, NoDataKeywords) THEN "NO_DATA"
    ELSE IF MismatchKeywords \subseteq text THEN "PANDAS_MISMATCH"
    ELSE IF AnyKeyword(text, FormatKeywords) THEN "DATA_FORMAT_ERROR"
    ELSE IF AnyKeyword(text, DatabaseKeywords) \/ type_name \in DatabaseTypes
    THEN "DATABASE_ERROR"
    ELSE "UNKNOWN"

\* A faulty rule chain: the network rule is tried before the timeout rule
ClassifyNetworkFirst(type_name, text) ==
    IF "chunkedencodingerror" = Lower(type_name) \/ AnyKeyword(text, ChunkedKeywords)
    THEN "CHUNKED_ENCODING"
    ELSE IF AnyKeyword(text, NetworkKeywords) THEN "NETWORK"
    ELSE IF AnyKeyword(text, TimeoutKeywords) THEN "TIMEOUT"
    ELSE ClassifyFromRateLimit(type_name, text)

\* _classify_error, the rule chain on the type name and the lowered message
ClassifyRules(type_name, text) ==
    IF "chunkedencodingerror" = Lower(type_name) \/ AnyKeyword(text, ChunkedKeywords)
    THEN "CHUNKED_ENCODING"
    ELSE IF AnyKeyword(text, TimeoutKeywords) THEN "TIMEOUT"
    ELSE IF AnyKeyword(text, NetworkKeywords) THEN "NETWORK"
    ELSE ClassifyFromRateLimit(type_name, text)

\* A faulty classifier: the message is matched as raised, without lower()
ClassifyCaseSensitive(error) == ClassifyRules(error.type, error.msg)

\* BaseDataProcessor._classify_error
_classify_error(error) == ClassifyRules(error.type, error_str(error))

\* A faulty policy: the RATE_LIMIT cap is missing and AUTH_ERROR is retried
ShouldRetryWithoutCaps(error_type, attempt, maxr) ==
    IF attempt >= maxr THEN FALSE
    ELSE IF error_type \in {"NOT_FOUND", "DATA_FORMAT_ERROR"} THEN FALSE
    ELSE TRUE

\* A faulty policy: every kind is retried while attempts remain
ShouldRetryAnyKind(error_type, attempt, maxr) == attempt < maxr

\* BaseDataProcessor._should_retry
_should_retry(error_type, attempt, maxr) ==
    IF attempt >= maxr THEN FALSE
    ELSE IF error_type \in {"AUTH_ERROR", "NOT_FOUND", "DATA_FORMAT_ERROR"} THEN FALSE
    ELSE IF error_type = "RATE_LIMIT" /\ attempt >= 2 THEN FALSE
    ELSE TRUE

\* 2 ** n
RECURSIVE Pow2(_)
Pow2(n) == IF n = 0 THEN 1 ELSE 2 * Pow2(n - 1)

\* A faulty delay: RATE_LIMIT backs off linearly and every other kind waits base_delay
RetryDelayLinear(error_type, base_delay, attempt) ==
    IF error_type = "RATE_LIMIT" THEN base_delay * (attempt + 1) + 5
    ELSE base_delay

\* BaseDataProcessor._get_retry_delay
_get_retry_delay(error_type, base_delay, attempt) ==
    IF error_type = "RATE_LIMIT" THEN base_delay * Pow2(attempt) + 5
    ELSE IF error_type = "CHUNKED_ENCODING" THEN base_delay + 2
    ELSE IF error_type = "TIMEOUT" THEN base_delay + attempt
    ELSE IF error_type = "NETWORK" THEN base_delay * attempt
    ELSE IF error_type = "SERVER_ERROR" THEN base_delay * 2
    ELSE IF error_type = "PANDAS_MISMATCH" THEN base_delay * (attempt + 1)
    ELSE base_delay

\* FundDataProcessor.safe_float: float(val), None when the conversion raises
safe_float(val) == IF val = "bad" THEN None ELSE val

\* FundDataProcessor.extract_fund_values on a table df = [has_price, rows]
RECURSIVE ExtractRows(_, _)
ExtractRows(rows, fund_type) ==
    IF rows = <<>> THEN <<>>
    ELSE LET row == Head(rows)
             rest == ExtractRows(Tail(rows), fund_type)
         IN  IF row.price = NaN THEN rest                       \* df[price_col].notna()
             ELSE IF row.code = "" THEN rest                    \* if code and name
             ELSE <<[code |-> row.code, type |-> fund_type,
                     price |-> safe_float(row.price)]>> \o rest

extract_fund_values(df, fund_type) ==
    IF ~df.has_price THEN <<>> ELSE ExtractRows(df.rows, fund_type)

\* The non-empty tables an upstream call can return: up to n rows with the price
\* column, or a table without it
Frames(n) ==
    {[has_price |-> TRUE, rows |-> rs] :
        rs \in SeqsUpTo([code : RowCodes, price : RawPrices], n)}
    \cup {[has_price |-> FALSE, rows |-> <<[code |-> "", price |-> NaN]>>]}

----------------------------------------------------------------------------
\* Values handed to callers
Pending == [kind |-> "pending", success |-> FALSE, error |-> ""]
\* sync_task_runner returned value v ("None" or "dict")
Returned(v, ok, err) == [kind |-> v, success |-> ok, error |-> err]
\* sync_task_runner left by an exception whose text is err
Raised(err) == [kind |-> "exception", success |-> FALSE, error |-> err]

\* A faulty cut: range(0, len(records) - batch_size + 1, batch_size), which drops
\* the records after the last full batch
BatchesOfFullSize(records, bs) ==
    [k \in 1..(Len(records) \div bs) |->
        SubSeq(records, (k - 1) * bs + 1, k * bs)]

\* range(0, len(records), batch_size) with records[i:i + batch_size]
Batches(records, bs) ==
    [k \in 1..((Len(records) + bs - 1) \div bs) |->
        SubSeq(records, (k - 1) * bs + 1, Min(k * bs, Len(records)))]

\* [f for f in final_funds if f[0] in codes]
FilterCodes(funds, codes) == SelectSeq(funds, LAMBDA f : f.code \in codes)

CodesOf(funds) == {funds[i].code : i \in 1..Len(funds)}

RECURSIVE Flatten(_)
Flatten(bs) == IF bs = <<>> THEN <<>> ELSE Head(bs) \o Flatten(Tail(bs))

\* integrate_fund_data, step 1: the three domestic kinds, records with a price only
RECURSIVE DomesticFunds(_, _)
DomesticFunds(data, order) ==
    IF order = <<>> THEN <<>>
    ELSE SelectSeq(data[Head(order)], LAMBDA r : r.price # None)
         \o DomesticFunds(data, Tail(order))

\* A faulty step 2: every QDII record appended, without the `not in domestic_codes` test
SupplementUnchecked(recs, seen, acc) ==
    [funds |-> acc \o recs, codes |-> seen \cup CodesOf(recs)]

\* integrate_fund_data, step 2: one QDII record list against the codes seen so far
RECURSIVE Supplement(_, _, _)
Supplement(recs, seen, acc) ==
    IF recs = <<>> THEN [funds |-> acc, codes |-> seen]
    ELSE LET r == Head(recs)
         IN  IF r.code \notin seen
             THEN Supplement(Tail(recs), seen \cup {r.code}, Append(acc, r))
             ELSE Supplement(Tail(recs), seen, acc)

integrate_fund_data(data) ==
    LET domestic_funds == DomesticFunds(data, DomesticOrder)
        domestic_codes == CodesOf(domestic_funds)
        q1 == Supplement(data[QdiiOrder[1]], domestic_codes, <<>>)
        q2 == Supplement(data[QdiiOrder[2]], q1.codes, q1.funds)
    IN  [final_funds |-> domestic_funds \o q2.funds, codes |-> q2.codes]

\* A faulty diff: every current code is put up for update, new ones included
DifferencesUpdatingAll(funds, existing) ==
    LET final_codes == CodesOf(funds)
    IN  [new_codes     |-> final_codes \ existing,
         removed_codes |-> existing \ final_codes,
         update_codes  |-> final_codes]

\* A faulty diff: no code is classified for update
DifferencesWithoutUpdates(funds, existing) ==
    LET final_codes == CodesOf(funds)
    IN  [new_codes     |-> final_codes \ existing,
         removed_codes |-> existing \ final_codes,
         update_codes  |-> {}]

\* analyze_data_differences
analyze_data_differences(funds, existing) ==
    LET final_codes == CodesOf(funds)
    IN  [new_codes     |-> final_codes \ existing,
         removed_codes |-> existing \ final_codes,
         update_codes  |-> final_codes \cap existing]

----------------------------------------------------------------------------
\* stocksync/market_status.py. A datetime.time is the second of the day it names
\* (its microsecond is not used by time_to_seconds)

January == 1
DaySeconds == 86400

\* datetime.time(hour, minute, second)
time(hour, minute, second) == hour * 3600 + minute * 60 + second

\* is_time_between(start_time, end_time, check_time, tolerance_seconds)
is_time_between(start_time, end_time, check_time, tol) ==
    LET start_seconds == start_time - tol
        end_seconds == end_time + tol
    IN  IF start_time <= end_time
        THEN start_seconds <= check_time /\ check_time <= end_seconds
        ELSE check_time >= start_seconds \/ check_time <= end_seconds

is_a_stock_market_open(now, tol) ==
    \/ is_time_between(time(9, 30, 0), time(11, 30, 0), now, tol)
    \/ is_time_between(time(13, 0, 0), time(15, 0, 0), now, tol)

is_hk_stock_market_open(now, tol) ==
    \/ is_time_between(time(9, 30, 0), time(12, 0, 0), now, tol)
    \/ is_time_between(time(13, 0, 0), time(16, 0, 0), now, tol)

is_us_stock_market_open(now, is_dst, tol) ==
    IF is_dst
    THEN \/ is_time_between(time(21, 30, 0), time(23, 59, 59), now, tol)
         \/ is_time_between(time(0, 0, 0), time(4, 0, 0), now, tol)
    ELSE \/ is_time_between(time(22, 30, 0), time(23, 59, 59), now, tol)
         \/ is_time_between(time(0, 0, 0), time(5, 0, 0), now, tol)

\* conf["check_open_func"] of a market, called as check_market_open_status calls it
check_func(market, now, is_dst, tol) ==
    CASE market = "A" -> is_a_stock_market_open(now, tol)
      [] market = "HK" -> is_hk_stock_market_open(now, tol)
      [] market = "US" -> is_us_stock_market_open(now, is_dst, tol)

\* (current_datetime - datetime.timedelta(hours=hours_delay)).time()
delayed(current_time, hours_delay) == (current_time - hours_delay * 3600) % DaySeconds

\* check_market_open_status(check_func, hours_delay, tolerance_seconds) at the
\* clock reading current_time in month `month`; check_func is that of `market`
\* (_create_market_configs_from_factory)
check_market_open_status(market, current_time, month, hours_delay, tol) ==
    LET delayed_time == delayed(current_time, hours_delay)
        is_dst == IF market = "US" THEN 3 <= month /\ month <= 11 ELSE TRUE
    IN  \/ check_func(market, current_time, is_dst, tol)
        \/ check_func(market, delayed_time, is_dst, tol)

\* clock readings of a run: the ends of the windows in which a market is found
\* open (now, or two hours earlier), the second before and after, and midnight
Times ==
    {time(9, 29, 29), time(9, 29, 30), time(17, 0, 30), time(17, 0, 31),
     time(18, 0, 30), time(18, 0, 31), time(21, 29, 29), time(21, 29, 30),
     time(22, 29, 30), time(6, 0, 30), time(6, 0, 31), time(7, 0, 30),
     time(23, 59, 59), time(0, 0, 0)}

\* months on both sides of `3 <= month <= 11`
Months == {2, 3, 11, 12}

\* clock readings at which the batch engine of a market is entered
EngineTimes == {time(10, 0, 0), time(22, 30, 0)}

\* StockDataFactory.register_data_sources, in registration order
MarketOrder == <<"A", "HK", "US">>
Markets == {MarketOrder[i] : i \in 1..Len(MarketOrder)}
NoSymbols == [m \in Markets |-> {}]

NoData == [t \in FundTypes |-> <<>>]

\* number of records held in fund_data beyond the first of each kind
RECURSIVE ExtraUpTo(_, _)
ExtraUpTo(data, i) ==
    IF i = 0 THEN 0
    ELSE (IF Len(data[FundOrder[i]]) > 1 THEN Len(data[FundOrder[i]]) - 1 ELSE 0)
         + ExtraUpTo(data, i - 1)

ExtraRows(data) == ExtraUpTo(data, Len(FundOrder))
Unobserved == [c \in DbCodes |-> "?"]

----------------------------------------------------------------------------
\* Funds run: run_fundsync_task -> fundsync.sync_task_runner

\* no cleaner is being called on its own
CleanerIdle == c_pc = "idle" /\ c_cleaner = "" /\ c_table = <<>> /\ c_out = <<>>

\* no market is being reconciled on its own
ReconcileIdle ==
    /\ r_pc = "idle" /\ market_name = "" /\ stock_info = <<>> /\ existing_symbols = {}
    /\ cleaned_dataframe = <<>> /\ chunk_i = 0
    /\ r_exist_records = <<>> /\ r_new_records = <<>>
    /\ r_new_symbols = {} /\ r_removed_symbols = {}

\* the single components are not being exercised
\* the first invocation of a task
FirstCycle == cycle = 1 /\ failed_keys = {}

\* the web process is not modelled
WebIdle ==
    /\ clock = 0 /\ _cache = <<>> /\ _access_times = <<>> /\ latest_set = <<>>
    /\ cache_call = <<>> /\ _requests = <<>> /\ max_requests = 0 /\ window_seconds = 0
    /\ admitted = <<>> /\ limiter_call = <<>>

ExtrasIdle == CleanerIdle /\ ReconcileIdle /\ FirstCycle /\ WebIdle

\* no error is being handled outside a fetch
PolicyIdle ==
    /\ p_pc = "idle" /\ p_error = NoError /\ p_kind = ""
    /\ p_attempt = 0 /\ p_max = 0 /\ p_base = 0 /\ p_retry = FALSE /\ p_delay = 0

FundsIdle ==
    /\ f_pc = "idle" /\ fund_tasks = <<>> /\ f_idx = 1 /\ f_attempt = 0
    /\ fund_data = NoData /\ success_types = {} /\ failed_types = <<>>
    /\ final_funds = <<>> /\ seen_codes = {} /\ existing_codes = {}
    /\ new_codes = {} /\ removed_codes = {} /\ update_codes = {}
    /\ ins_batches = <<>> /\ ins_status = <<>> /\ upd_batches = <<>> /\ upd_status = <<>>
    /\ upd_exec = <<>>
    /\ marked_deleted = {} /\ fund_db = Unobserved /\ fund_price = Unobserved
    /\ storage_calls = {}
    /\ merge_input = NoData

StocksIdle ==
    /\ s_pc = "idle" /\ factory_ok = TRUE /\ existing_symbols_map = NoSymbols
    /\ s_now = time(0, 0, 0) /\ s_month = January
    /\ s_idx = 1 /\ s_attempt = 0 /\ processed_markets = 0 /\ skipped_markets = 0
    /\ s_open = {} /\ s_fetched = {} /\ s_fetch_failed = {} /\ s_fetch_ok = {}
    /\ s_synced = {} /\ exist_records = <<>> /\ new_records = <<>>
    /\ removed_symbols = {} /\ s_upd_status = <<>> /\ s_ins_status = <<>>
    /\ s_upd_exec = <<>> /\ failed_update_symbols = {}
    /\ total_updated = 0 /\ total_inserted = 0
    /\ total_update_duration = 0 /\ total_insert_duration = 0 /\ s_marked = {}
    /\ market_result = {}

\* FundDataProcessor.__init__: a kind enters fund_tasks when akshare has its function
FundTasksFor(available) == SelectSeq(FundOrder, LAMBDA t : t \in available)

InitFunds ==
    /\ task = "fundsync"
    /\ ExtrasIdle
    /\ batch_size = MaxBatchSize
    /\ f_pc = "connect"
    /\ \E missing \in {{}} \cup {{t} : t \in FundTypes} :
          fund_tasks = FundTasksFor(FundTypes \ missing)
    /\ f_idx = 1 /\ f_attempt = 0
    /\ fund_data = NoData /\ success_types = {} /\ failed_types = <<>>
    /\ final_funds = <<>> /\ seen_codes = {} /\ existing_codes = {}
    /\ new_codes = {} /\ removed_codes = {} /\ update_codes = {}
    /\ ins_batches = <<>> /\ ins_status = <<>> /\ upd_batches = <<>> /\ upd_status = <<>>
    /\ upd_exec = <<>>
    /\ marked_deleted = {} /\ fund_db = Unobserved /\ fund_price = Unobserved
    /\ storage_calls = {}
    /\ merge_input = NoData
    /\ StocksIdle
    /\ runner_result = Pending /\ task_result = Pending
    /\ PolicyIdle

\* engine = get_engine(): None when an environment variable is missing, and
\* sync_task_runner returns at once
FundConnect ==
    /\ task = "fundsync" /\ f_pc = "connect"
    /\ \/ /\ f_pc' = "collect"
          /\ UNCHANGED runner_result
       \/ /\ f_pc' = "no_engine"
          /\ runner_result' = Returned("None", FALSE, "")
    /\ UNCHANGED <<fund_tasks, f_idx, f_attempt, fund_data,
                   success_types, failed_types, final_funds, seen_codes, existing_codes,
                   new_codes, removed_codes, update_codes, ins_batches, ins_status,
                   upd_batches, upd_status, upd_exec, marked_deleted,
                   fund_db, fund_price, storage_calls,
                   merge_input, task, batch_size, xvars, pvars, task_result, svars>>

\* What the attempt of a fetch that just ended did: p_pc is "retry" when the loop goes
\* on to the next attempt, "data" or "failure" when the fetch returned; error_type is
\* "" when get_func() did not raise; delay is the argument of time.sleep or NoSleep
FetchTrace(pc, error_type, attempt, base_delay, retry, delay) ==
    /\ p_pc' = pc /\ p_error' = NoError /\ p_kind' = error_type
    /\ p_attempt' = attempt /\ p_max' = max_retry /\ p_base' = base_delay
    /\ p_retry' = retry /\ p_delay' = delay

\* the outcome of the last fetch has been consumed
FetchForgotten ==
    /\ p_pc' = "idle" /\ p_error' = NoError /\ p_kind' = ""
    /\ p_attempt' = 0 /\ p_max' = 0 /\ p_base' = 0 /\ p_retry' = FALSE /\ p_delay' = 0

Collecting == task = "fundsync" /\ f_pc = "collect" /\ f_idx <= Len(fund_tasks)

\* collect_all_fund_data: the source at f_idx is done, with or without records
SourceDone(records) ==
    LET t == fund_tasks[f_idx]
    IN  /\ IF records # <<>>
           THEN /\ fund_data' = [fund_data EXCEPT ![t] = records]
                /\ success_types' = success_types \cup {t}
                /\ UNCHANGED failed_types
           ELSE /\ failed_types' = Append(failed_types, t)
                /\ UNCHANGED <<fund_data, success_types>>
        /\ f_idx' = f_idx + 1
        /\ f_attempt' = 0

CollectFrame == <<f_pc, fund_tasks, final_funds, seen_codes, existing_codes, new_codes,
                  removed_codes, update_codes, ins_batches, ins_status, upd_batches,
                  upd_status, upd_exec, marked_deleted,
                  fund_db, fund_price, storage_calls, merge_input,
                  task, batch_size, xvars, runner_result, task_result, svars>>

\* safe_get_data: get_func() returns a non-empty table; collect_all_fund_data cleans it
FundFetchData ==
    /\ Collecting
    /\ \E df \in Frames(1 + MaxExtraRows - ExtraRows(fund_data)) :
          SourceDone(extract_fund_values(df, fund_tasks[f_idx]))
    /\ FetchTrace("data", "", f_attempt, fund_retry_delay, FALSE, NoSleep)
    /\ UNCHANGED CollectFrame

\* safe_get_data: get_func() returns None or an empty table; next attempt without sleep
FundFetchEmpty ==
    /\ Collecting
    /\ IF f_attempt + 1 < max_retry
       THEN /\ f_attempt' = f_attempt + 1
            /\ FetchTrace("retry", "", f_attempt, fund_retry_delay, FALSE, NoSleep)
            /\ UNCHANGED <<f_idx, fund_data, success_types, failed_types>>
       ELSE /\ SourceDone(<<>>)
            /\ FetchTrace("failure", "", f_attempt, fund_retry_delay, FALSE, NoSleep)
    /\ UNCHANGED <<CollectFrame>>

\* safe_get_data: get_func() raises an error that _classify_error maps to error_type
FundFetchError ==
    /\ Collecting
    /\ \E error_type \in ErrorKinds :
          IF ~_should_retry(error_type, f_attempt, max_retry)
          THEN /\ SourceDone(<<>>)
               /\ FetchTrace("failure", error_type, f_attempt, fund_retry_delay,
                             FALSE, NoSleep)
          ELSE IF f_attempt < max_retry - 1
          THEN /\ f_attempt' = f_attempt + 1
               /\ FetchTrace("retry", error_type, f_attempt, fund_retry_delay, TRUE,
                             _get_retry_delay(error_type, fund_retry_delay, f_attempt))
               /\ UNCHANGED <<f_idx, fund_data, success_types, failed_types>>
          ELSE /\ SourceDone(<<>>)
               /\ FetchTrace("failure", error_type, f_attempt, fund_retry_delay,
                             TRUE, NoSleep)
    /\ UNCHANGED <<CollectFrame>>

\* A faulty gate: any delivered source kind lets the run pass
CoverageOfAny(success) == success # {}

\* A faulty gate: the run goes on whatever the sources delivered
CoverageUnchecked(success) == TRUE

\* collect_all_fund_data: success_types == required_types
coverage_complete(success) == success = FundTypes

\* collect_all_fund_data's final check and sync_task_runner's `if not fund_data: return`
FundGate ==
    /\ task = "fundsync" /\ f_pc = "collect" /\ f_idx > Len(fund_tasks)
    /\ IF coverage_complete(success_types)
       THEN /\ f_pc' = "integrate"
            /\ UNCHANGED runner_result
       ELSE /\ f_pc' = "aborted"
            /\ runner_result' = Returned("None", FALSE, "")
    /\ FetchForgotten
    /\ UNCHANGED <<fund_tasks, f_idx, f_attempt, fund_data,
                   success_types, failed_types, final_funds, seen_codes, existing_codes,
                   new_codes, removed_codes, update_codes, ins_batches, ins_status,
                   upd_batches, upd_status, upd_exec, marked_deleted,
                   fund_db, fund_price, storage_calls,
                   merge_input, task, batch_size, xvars, task_result, svars>>

\* processor.integrate_fund_data(fund_data)
FundIntegrate ==
    /\ task = "fundsync" /\ f_pc = "integrate"
    /\ LET r == integrate_fund_data(fund_data)
       IN  /\ final_funds' = r.final_funds
           /\ seen_codes' = r.codes
    /\ merge_input' = fund_data
    /\ fund_data' = NoData
    /\ f_pc' = "existing"
    /\ UNCHANGED <<fund_tasks, f_idx, f_attempt, success_types,
                   failed_types, existing_codes, new_codes, removed_codes, update_codes,
                   ins_batches, ins_status, upd_batches, upd_status, upd_exec,
                   marked_deleted, fund_db, fund_price,
                   storage_calls, task, batch_size, xvars, pvars, runner_result,
                   task_result, svars>>

\* An exception leaves sync_task_runner (it has no try block)
FundRaise(err) ==
    /\ f_pc' = "raised"
    /\ runner_result' = Raised(err)

\* db.get_existing_fund_codes(): the Live codes, or the query raises
FundReadExisting ==
    /\ task = "fundsync" /\ f_pc = "existing"
    /\ storage_calls' = storage_calls \cup {"read_existing"}
    /\ \/ \E rows \in [DbCodes -> {"absent", "L"}] :
             /\ fund_db' = rows
             /\ fund_price' = [c \in DbCodes |->
                                 IF rows[c] = "L" THEN OldPrice ELSE "absent"]
             /\ existing_codes' = {c \in DbCodes : rows[c] = "L"}
             /\ f_pc' = "diff"
             /\ UNCHANGED runner_result
       \/ /\ FundRaise("read_existing")
          /\ UNCHANGED <<fund_db, fund_price, existing_codes>>
    /\ UNCHANGED <<fund_tasks, f_idx, f_attempt, fund_data,
                   success_types, failed_types, final_funds, seen_codes, new_codes,
                   removed_codes, update_codes, ins_batches, ins_status, upd_batches,
                   upd_status, upd_exec, marked_deleted, merge_input, task,
                   batch_size, xvars, pvars, task_result, svars>>

\* processor.analyze_data_differences(final_funds, existing_codes)
FundDiff ==
    /\ task = "fundsync" /\ f_pc = "diff"
    /\ LET d == analyze_data_differences(final_funds, existing_codes)
       IN  /\ new_codes' = d.new_codes
           /\ removed_codes' = d.removed_codes
           /\ update_codes' = d.update_codes
    /\ f_pc' = "mark"
    /\ UNCHANGED <<fund_tasks, f_idx, f_attempt, fund_data,
                   success_types, failed_types, final_funds, seen_codes, existing_codes,
                   ins_batches, ins_status, upd_batches, upd_status, upd_exec,
                   marked_deleted, fund_db, fund_price,
                   storage_calls, merge_input, task, batch_size, xvars, pvars,
                   runner_result, task_result, svars>>

----------------------------------------------------------------------------
\* FundDatabase.execute_batch_updates: mark deleted, insert new, update existing

AllPending(batches) == [k \in 1..Len(batches) |-> "pending"]

\* The records of the batches whose transaction committed, in list order
RECURSIVE AppliedFrom(_, _, _)
AppliedFrom(batches, status, k) ==
    IF k > Len(batches) THEN <<>>
    ELSE (IF status[k] = "applied" THEN batches[k] ELSE <<>>)
         \o AppliedFrom(batches, status, k + 1)

AppliedRecords(batches, status) == AppliedFrom(batches, status, 1)

AnyWith(status, v) == \E k \in 1..Len(status) : status[k] = v

\* A faulty pool: the next pool is opened without waiting for the futures
FoldedOrNot(status) == TRUE

\* the as_completed loop of a stock pool has consumed the result of every future
AllFolded(status) == \A k \in 1..Len(status) : status[k] \in {"applied", "failed"}

\* what the collect / merge / diff phases left behind
InputFrame == <<fund_tasks, f_idx, f_attempt, fund_data, success_types,
                failed_types, final_funds, seen_codes, existing_codes, new_codes,
                removed_codes, update_codes, merge_input, task, batch_size, xvars, pvars, task_result,
                svars>>

\* the latest_price column after INSERT_FUNDS_BATCH (target = "absent": a row per
\* record) or UPDATE_FUNDS_BATCH (target = "L": the Live row of each record's code)
\* ran on the batch: a targeted row holds the price of a record of its code (of any
\* of them when the batch has several), every other row keeps its price
PricesWritten(prices, rows, batch, target) ==
    LET cell(c) ==
            IF c \in CodesOf(batch) /\ rows[c] = target
            THEN {batch[i].price : i \in {j \in DOMAIN batch : batch[j].code = c}}
            ELSE {prices[c]}
    IN  {written \in [DbCodes -> UNION {cell(c) : c \in DbCodes}] :
            \A c \in DbCodes : written[c] \in cell(c)}

\* A faulty statement: every Live row is marked, whatever its code
MarkEveryLiveRow(rows, codes) ==
    [c \in DbCodes |-> IF rows[c] = "L" THEN "D" ELSE rows[c]]

\* A faulty statement: no row is marked
MarkNoRow(rows, codes) == rows

\* FundSQL.MARK_FUNDS_DELETED: status 'D' for the Live rows of the codes
MarkFundsDeletedRows(rows, codes) ==
    [c \in DbCodes |-> IF c \in codes /\ rows[c] = "L" THEN "D" ELSE rows[c]]

\* FundSQL.INSERT_FUNDS_BATCH: a row with status 'L' per record
InsertFundRows(rows, batch) ==
    [c \in DbCodes |-> IF c \in CodesOf(batch) /\ rows[c] = "absent"
                     THEN "L" ELSE rows[c]]

\* A faulty transaction scope: what the statements wrote stays when the commit fails
TransactionKeepsWrites(rows, written, committed) == written

\* `with conn.begin():` the rows after the block: what the statements wrote when the
\* transaction commits, the rows as they were when it fails and is rolled back
TransactionEffect(rows, written, committed) == IF committed THEN written ELSE rows

\* self.mark_funds_deleted(removed_codes)
FundMarkDeleted ==
    /\ f_pc = "mark"
    /\ IF removed_codes = {}
       THEN /\ f_pc' = "insert"
            /\ UNCHANGED <<marked_deleted,
                           fund_db, fund_price, storage_calls, runner_result>>
       ELSE /\ storage_calls' = storage_calls \cup {"mark_deleted"}
            /\ \/ /\ marked_deleted' = removed_codes
                  /\ fund_db' = MarkFundsDeletedRows(fund_db, removed_codes)
                  /\ UNCHANGED fund_price
                  /\ f_pc' = "insert"
                  /\ UNCHANGED runner_result
               \/ /\ FundRaise("mark_deleted")
                  /\ UNCHANGED <<marked_deleted, fund_db, fund_price>>
    /\ UNCHANGED <<InputFrame, ins_batches, ins_status, upd_batches, upd_status, upd_exec>>

\* insert_new_funds: cut new_funds into batches and submit every batch to the pool
FundInsertSubmit ==
    /\ f_pc = "insert"
    /\ LET new_funds == FilterCodes(final_funds, new_codes)
       IN  IF new_funds = <<>>
           THEN /\ f_pc' = "update"
                /\ UNCHANGED <<ins_batches, ins_status, storage_calls>>
           ELSE /\ ins_batches' = Batches(new_funds, batch_size)
                /\ ins_status' = AllPending(Batches(new_funds, batch_size))
                /\ storage_calls' = storage_calls \cup {"insert"}
                /\ f_pc' = "insert_run"
    /\ UNCHANGED <<InputFrame, upd_batches, upd_status, upd_exec, marked_deleted,
                   fund_db, fund_price,
                   runner_result>>

\* _batch_insert_worker on one batch: its transaction commits, or fails and is re-raised
FundInsertWorker ==
    /\ f_pc = "insert_run"
    /\ \E k \in 1..Len(ins_batches) :
          /\ ins_status[k] = "pending"
          /\ \E committed \in BOOLEAN :
                /\ ins_status' = [ins_status EXCEPT ![k] =
                                    IF committed THEN "applied" ELSE "failed"]
                /\ fund_db' = TransactionEffect(
                                 fund_db, InsertFundRows(fund_db, ins_batches[k]), committed)
                /\ \E written \in PricesWritten(fund_price, fund_db, ins_batches[k],
                                                 "absent") :
                      fund_price' = TransactionEffect(fund_price, written, committed)
    /\ UNCHANGED <<InputFrame, f_pc, ins_batches, upd_batches, upd_status, upd_exec,
                   marked_deleted, storage_calls, runner_result>>

\* insert_new_funds: the as_completed loop re-raises a worker's exception; the pool's
\* exit has waited for every submitted batch
FundInsertJoin ==
    /\ f_pc = "insert_run"
    /\ ~AnyWith(ins_status, "pending")
    /\ IF AnyWith(ins_status, "failed")
       THEN FundRaise("insert_batch")
       ELSE /\ f_pc' = "update"
            /\ UNCHANGED runner_result
    /\ UNCHANGED <<InputFrame, ins_batches, ins_status, upd_batches, upd_status, upd_exec,
                   marked_deleted, fund_db, fund_price, storage_calls>>

\* update_existing_funds: cut update_funds into batches and submit every batch
FundUpdateSubmit ==
    /\ f_pc = "update"
    /\ LET update_funds == FilterCodes(final_funds, update_codes)
       IN  IF update_funds = <<>>
           THEN /\ f_pc' = "completed"
                /\ runner_result' = Returned("None", FALSE, "")
                /\ UNCHANGED <<upd_batches, upd_status, upd_exec, storage_calls>>
           ELSE /\ upd_batches' = Batches(update_funds, batch_size)
                /\ upd_status' = AllPending(Batches(update_funds, batch_size))
                /\ upd_exec' = AllPending(Batches(update_funds, batch_size))
                /\ storage_calls' = storage_calls \cup {"update"}
                /\ f_pc' = "update_run"
                /\ UNCHANGED runner_result
    /\ UNCHANGED <<InputFrame, ins_batches, ins_status, marked_deleted, fund_db, fund_price>>

\* _batch_update_worker on one batch (UPDATE_FUNDS_BATCH leaves status alone): one
\* execute_values call in one transaction; whatever raises (connecting, the
\* statement, the commit) is logged and raised again
FundUpdateWorker ==
    /\ f_pc = "update_run"
    /\ \E k \in 1..Len(upd_batches) :
          /\ upd_status[k] = "pending"
          /\ \E outcome \in {"applied", "failed"} :
                /\ upd_status' = [upd_status EXCEPT ![k] = outcome]
                /\ \E exec \in IF outcome = "applied" THEN {"no_throw"}
                                ELSE {"threw", "no_throw"} :
                      upd_exec' = [upd_exec EXCEPT ![k] = exec]
                /\ \E written \in PricesWritten(fund_price, fund_db, upd_batches[k], "L") :
                      fund_price' =
                          TransactionEffect(fund_price, written, outcome = "applied")
    /\ UNCHANGED <<InputFrame, f_pc, ins_batches, ins_status, upd_batches, marked_deleted,
                   fund_db, storage_calls, runner_result>>

\* update_existing_funds' as_completed loop, then sync_task_runner falls off its end
FundUpdateJoin ==
    /\ f_pc = "update_run"
    /\ ~AnyWith(upd_status, "pending")
    /\ IF AnyWith(upd_status, "failed")
       THEN FundRaise("update_batch")
       ELSE /\ f_pc' = "completed"
            /\ runner_result' = Returned("None", FALSE, "")
    /\ UNCHANGED <<InputFrame, ins_batches, ins_status, upd_batches, upd_status, upd_exec,
                   marked_deleted, fund_db, fund_price, storage_calls>>

\* task/index.py run_fundsync_task: result if truthy, else a failure dict; an
\* exception becomes a failure dict carrying str(e)
TaskFailed == "task failed"

run_task_report(result) ==
    IF result.kind = "exception" THEN Returned("dict", FALSE, result.error)
    ELSE IF result.kind = "None" THEN Returned("dict", FALSE, TaskFailed)
    ELSE result

RunFundsyncTask ==
    /\ task = "fundsync"
    /\ f_pc \in {"no_engine", "aborted", "completed", "raised"}
    /\ task_result = Pending
    /\ task_result' = run_task_report(runner_result)
    /\ UNCHANGED <<task, batch_size, xvars, pvars, fvars, svars, runner_result>>

FundsNext ==
    \/ FundConnect
    \/ FundFetchData \/ FundFetchEmpty \/ FundFetchError \/ FundGate
    \/ FundIntegrate \/ FundReadExisting \/ FundDiff
    \/ FundMarkDeleted \/ FundInsertSubmit \/ FundInsertWorker \/ FundInsertJoin
    \/ FundUpdateSubmit \/ FundUpdateWorker \/ FundUpdateJoin
    \/ RunFundsyncTask

----------------------------------------------------------------------------
\* Stocks run: run_stocksync_task -> stocksync.sync_task_runner

InitStocks ==
    /\ task = "stocksync"
    /\ ExtrasIdle
    /\ batch_size = MaxBatchSize
    /\ FundsIdle
    /\ s_pc = "construct" /\ factory_ok \in BOOLEAN /\ existing_symbols_map = NoSymbols
    /\ s_now \in Times /\ s_month \in Months
    /\ s_idx = 1 /\ s_attempt = 0 /\ processed_markets = 0 /\ skipped_markets = 0
    /\ s_open = {} /\ s_fetched = {} /\ s_fetch_failed = {} /\ s_fetch_ok = {}
    /\ s_synced = {} /\ exist_records = <<>> /\ new_records = <<>>
    /\ removed_symbols = {} /\ s_upd_status = <<>> /\ s_ins_status = <<>>
    /\ s_upd_exec = <<>> /\ failed_update_symbols = {}
    /\ total_updated = 0 /\ total_inserted = 0
    /\ total_update_duration = 0 /\ total_insert_duration = 0 /\ s_marked = {}
    /\ market_result = {}
    /\ runner_result = Pending /\ task_result = Pending
    /\ PolicyIdle

\* StockDataFactory.register_data_sources: clean_func=None for every market, and
\* _create_market_configs_from_factory copies it into market_configs
clean_func(market) == None

\* sync_task_runner's except clause: the failure dict, then the finally clause
StockFail(err) ==
    /\ s_pc' = "done"
    /\ runner_result' = Returned("dict", FALSE, err)

StockLoopFrame == <<factory_ok, existing_symbols_map, s_now, s_month, exist_records,
                    new_records,
                    removed_symbols, s_upd_status, s_upd_exec,
           failed_update_symbols, s_ins_status, total_updated, total_update_duration,
                    total_inserted, total_insert_duration, s_marked, market_result, s_synced>>

\* processor = StockDataProcessor(): the factory is created or RuntimeError is raised;
\* the finally clause constructs a second StockDataProcessor, outside any try
StockConstruct ==
    /\ s_pc = "construct"
    /\ IF factory_ok
       THEN /\ s_pc' = "read_existing"
            /\ UNCHANGED runner_result
       ELSE /\ s_pc' = "done"
            /\ runner_result' = Raised("factory")
    /\ UNCHANGED <<task, batch_size, xvars, pvars, fvars, task_result, StockLoopFrame, s_idx,
                   s_attempt,
                   processed_markets, skipped_markets, s_open, s_fetched, s_fetch_failed,
                   s_fetch_ok>>

\* get_existing_stock_symbols_by_market: the map read, whole or (when the query
\* raises) as far as it was built; never an exception
StockReadExisting ==
    /\ s_pc = "read_existing"
    /\ storage_calls' = storage_calls \cup {"read_existing"}
    /\ existing_symbols_map' \in [Markets -> SUBSET Codes]
    /\ s_pc' = "loop"
    /\ UNCHANGED <<task, batch_size, xvars, pvars, runner_result, task_result, factory_ok, s_now,
                   s_month, s_idx, s_attempt, processed_markets, skipped_markets, s_open,
                   s_fetched,
                   s_fetch_failed, s_fetch_ok, s_synced, exist_records, new_records,
                   removed_symbols, s_upd_status, s_upd_exec,
           failed_update_symbols, s_ins_status, total_updated, total_update_duration,
                   total_inserted, total_insert_duration, s_marked, market_result,
                   f_pc, fund_tasks, f_idx, f_attempt, fund_data, success_types,
                   failed_types, final_funds, seen_codes, existing_codes, new_codes,
                   removed_codes, update_codes, ins_batches, ins_status, upd_batches,
                   upd_status, upd_exec, marked_deleted, fund_db, fund_price, merge_input>>

\* collect_all_stock_data: check_market_open_status(conf["check_open_func"], 2)
StockCheckOpen ==
    /\ s_pc = "loop" /\ s_idx <= Len(MarketOrder)
    /\ LET open == check_market_open_status(MarketOrder[s_idx], s_now, s_month, 2,
                                            tolerance_seconds)
       IN IF open
          THEN /\ s_open' = s_open \cup {MarketOrder[s_idx]}
               /\ s_pc' = "fetch"
               /\ s_attempt' = 0
               /\ UNCHANGED <<s_idx, skipped_markets>>
          ELSE /\ skipped_markets' = skipped_markets + 1
               /\ s_idx' = s_idx + 1
               /\ UNCHANGED <<s_open, s_pc, s_attempt>>
    /\ UNCHANGED <<task, batch_size, xvars, pvars, fvars, runner_result, task_result, StockLoopFrame,
                   processed_markets, s_fetched, s_fetch_failed, s_fetch_ok>>

\* process_and_sync_stock_data returns without syncing: raw_dataframe is None
StockFetchFailed ==
    /\ s_fetch_failed' = s_fetch_failed \cup {MarketOrder[s_idx]}
    /\ processed_markets' = processed_markets + 1
    /\ s_idx' = s_idx + 1
    /\ s_attempt' = 0
    /\ s_pc' = "loop"

\* safely_get_market_data, one attempt: signal.alarm(timeout); get_data_func()
StockFetch ==
    /\ s_pc = "fetch"
    /\ s_fetched' = s_fetched \cup {MarketOrder[s_idx]}
    /\ \/ \* data arrives
          /\ s_fetch_ok' = s_fetch_ok \cup {MarketOrder[s_idx]}
          /\ s_pc' = "clean"
          /\ FetchTrace("data", "", s_attempt, stock_retry_delay, FALSE, NoSleep)
          /\ UNCHANGED <<s_fetch_failed, processed_markets, s_idx, s_attempt>>
       \/ \* an error (empty data raises ValueError, classified UNKNOWN)
          /\ \E error_type \in ErrorKinds :
                IF ~_should_retry(error_type, s_attempt, max_retry)
                THEN /\ StockFetchFailed
                     /\ FetchTrace("failure", error_type, s_attempt, stock_retry_delay,
                                   FALSE, NoSleep)
                ELSE IF s_attempt < max_retry - 1
                THEN /\ s_attempt' = s_attempt + 1
                     /\ FetchTrace("retry", error_type, s_attempt, stock_retry_delay, TRUE,
                            _get_retry_delay(error_type, stock_retry_delay, s_attempt))
                     /\ UNCHANGED <<s_fetch_failed, processed_markets, s_idx, s_pc>>
                ELSE /\ StockFetchFailed
                     /\ FetchTrace("failure", error_type, s_attempt, stock_retry_delay,
                                   TRUE, NoSleep)
          /\ UNCHANGED s_fetch_ok
       \/ \* get_data_func() outlasts the alarm: SIGALRM has no handler, the process ends
          /\ s_pc' = "killed"
          /\ UNCHANGED <<s_fetch_ok, s_fetch_failed, processed_markets, s_idx, s_attempt,
                         pvars>>
    /\ UNCHANGED <<task, batch_size, xvars, fvars, runner_result, task_result, StockLoopFrame,
                   skipped_markets, s_open>>

\* process_and_sync_stock_data: cleaned_dataframe = clean_func(raw_dataframe); with
\* clean_func None the call raises TypeError, which leaves collect_all_stock_data
StockClean ==
    /\ s_pc = "clean"
    /\ clean_func(MarketOrder[s_idx]) = None
    /\ StockFail("clean_func is not callable")
    /\ UNCHANGED <<task, batch_size, xvars, pvars, fvars, task_result, StockLoopFrame, s_idx,
                   s_attempt,
                   processed_markets, skipped_markets, s_open, s_fetched, s_fetch_failed,
                   s_fetch_ok>>

\* collect_all_stock_data returns its counters; sync_task_runner returns success
StockLoopEnd ==
    /\ s_pc = "loop" /\ s_idx > Len(MarketOrder)
    /\ s_pc' = "done"
    /\ runner_result' = Returned("dict", TRUE, "")
    /\ UNCHANGED <<task, batch_size, xvars, pvars, fvars, task_result, StockLoopFrame, s_idx,
                   s_attempt,
                   processed_markets, skipped_markets, s_open, s_fetched, s_fetch_failed,
                   s_fetch_ok>>

\* task/index.py run_stocksync_task
RunStocksyncTask ==
    /\ task = "stocksync"
    /\ s_pc = "done"
    /\ task_result = Pending
    /\ task_result' = run_task_report(runner_result)
    /\ UNCHANGED <<task, batch_size, xvars, pvars, fvars, svars, runner_result>>

----------------------------------------------------------------------------
\* StockDataProcessor.process_market_records

StockEngineFrame == <<task, batch_size, xvars, pvars, fvars, task_result, factory_ok,
                      existing_symbols_map, s_now, s_month, s_attempt, skipped_markets, s_open,
                      s_fetched, s_fetch_failed, s_fetch_ok, exist_records, new_records,
                      removed_symbols>>

\* A faulty fold: the aggregate keeps the value of the worker that completed last
FoldLast(total, value) == value

\* process_market_records' as_completed loops: total += value
Fold(total, value) == total + value

\* duration = time.time() - start_time of the worker of batch k, in ticks: a fixed
\* time per batch, different for every batch of a pool
Duration(k) == k

\* update_stock_records_batch has not run on a batch yet
NotExecuted == [mode |-> "pending", rows |-> <<>>, committed |-> FALSE]

\* what the UPDATE of one record can do: in a whole-batch execute that returns, a row
\* is updated or no row matches; executed alone, the statement may also raise
RowOutcomes(mode) ==
    IF mode = "batch" THEN {"updated", "zero"} ELSE {"updated", "zero", "threw"}

\* result.rowcount of the whole-batch execute: the rows all its statements changed
rowcount(rows) == Cardinality({i \in DOMAIN rows : rows[i] = "updated"})

\* The symbols update_stock_records_batch appends to failed_symbols: after a
\* whole-batch execute, every symbol of the batch when result.rowcount == 0 and none
\* otherwise; in the fallback, the symbols whose own statement raised or had rowcount 0
FailedSymbols(batch, mode, rows) ==
    IF mode = "batch"
    THEN IF rowcount(rows) = 0 THEN {batch[i].symbol : i \in DOMAIN batch} ELSE {}
    ELSE {batch[i].symbol : i \in {j \in DOMAIN batch : rows[j] \in {"zero", "threw"}}}

\* the update pool: one update_stock_records_batch per slice of exist_records
StockUpdateSubmit ==
    /\ s_pc = "update"
    /\ s_synced' = s_synced \cup {MarketOrder[s_idx]}
    /\ s_upd_status' = AllPending(Batches(exist_records, batch_size))
    /\ s_upd_exec' = [k \in DOMAIN Batches(exist_records, batch_size) |-> NotExecuted]
    /\ failed_update_symbols' = {}
    /\ s_pc' = "update_run"
    /\ UNCHANGED <<StockEngineFrame, s_idx, processed_markets, s_ins_status, total_updated,
                   total_update_duration,
                   total_inserted, total_insert_duration, s_marked, market_result,
                   runner_result>>

\* update_stock_records_batch on batch k, in a thread of the pool. engine.begin()
\* may fail before any statement. Otherwise the whole-batch execute either returns
\* (mode "batch": every row is updated or matches no row) or raises (mode
\* "fallback": the records are executed one by one, each updating its row, matching
\* no row or raising); the worker appends the symbols of FailedSymbols to the list
\* it was given, and the transaction commits or fails. The worker returns
\* (len(batch), duration, None) ("done") or, when the transaction fails,
\* (0, duration, e) ("error")
StockUpdateWorker ==
    /\ s_pc = "update_run"
    /\ \E k \in 1..Len(s_upd_status) :
          LET batch == Batches(exist_records, batch_size)[k]
          IN  /\ s_upd_status[k] = "pending"
              /\ \/ /\ s_upd_status' = [s_upd_status EXCEPT ![k] = "error"]
                    /\ s_upd_exec' = [s_upd_exec EXCEPT ![k] =
                          [mode |-> "not_run", rows |-> <<>>, committed |-> FALSE]]
                    /\ UNCHANGED failed_update_symbols
                 \/ \E mode \in {"batch", "fallback"}, committed \in BOOLEAN :
                    \E rows \in [DOMAIN batch -> RowOutcomes(mode)] :
                       /\ failed_update_symbols' =
                             failed_update_symbols \cup FailedSymbols(batch, mode, rows)
                       /\ s_upd_exec' = [s_upd_exec EXCEPT ![k] =
                             [mode |-> mode, rows |-> rows, committed |-> committed]]
                       /\ s_upd_status' = [s_upd_status EXCEPT ![k] =
                             IF committed THEN "done" ELSE "error"]
    /\ UNCHANGED <<StockEngineFrame, s_pc, s_idx, processed_markets, s_synced,
                   s_ins_status, total_updated, total_update_duration, total_inserted,
                   total_insert_duration, s_marked, market_result, runner_result>>

\* one turn of `for future in as_completed(futures)` of the update pool, in the
\* thread of process_market_records: updated, duration, error = future.result();
\* `if error is None:` the count and the duration are added to the totals
StockUpdateFold ==
    /\ s_pc = "update_run"
    /\ \E k \in 1..Len(s_upd_status) :
          /\ s_upd_status[k] \in {"done", "error"}
          /\ IF s_upd_status[k] = "done"
             THEN /\ s_upd_status' = [s_upd_status EXCEPT ![k] = "applied"]
                  /\ total_updated' =
                        Fold(total_updated, Len(Batches(exist_records, batch_size)[k]))
                  /\ total_update_duration' = Fold(total_update_duration, Duration(k))
             ELSE /\ s_upd_status' = [s_upd_status EXCEPT ![k] = "failed"]
                  /\ UNCHANGED <<total_updated, total_update_duration>>
    /\ UNCHANGED <<StockEngineFrame, s_pc, s_idx, processed_markets, s_synced,
                   s_upd_exec, failed_update_symbols, s_ins_status, total_inserted,
                   total_insert_duration, s_marked, market_result, runner_result>>

\* the update pool is left; `if new_records:` opens the insert pool
StockInsertSubmit ==
    /\ s_pc = "update_run"
    /\ AllFolded(s_upd_status)
    /\ IF new_records = <<>>
       THEN /\ s_pc' = "mark"
            /\ UNCHANGED s_ins_status
       ELSE /\ s_ins_status' = AllPending(Batches(new_records, batch_size))
            /\ s_pc' = "insert_run"
    \* the workers' connections are closed: what their statements did is history
    /\ s_upd_exec' = [k \in DOMAIN s_upd_exec |-> NotExecuted]
    /\ UNCHANGED <<StockEngineFrame, s_idx, processed_markets, s_synced, s_upd_status,
                   failed_update_symbols, total_updated, total_update_duration,
                   total_inserted, total_insert_duration, s_marked,
                   market_result, runner_result>>

\* insert_stock_records_batch on batch k, in a thread of the pool: it returns
\* (len(batch), duration, None) ("done") or (0, duration, e) ("error")
StockInsertWorker ==
    /\ s_pc = "insert_run"
    /\ \E k \in 1..Len(s_ins_status) :
          /\ s_ins_status[k] = "pending"
          /\ \E returned \in {"done", "error"} :
                s_ins_status' = [s_ins_status EXCEPT ![k] = returned]
    /\ UNCHANGED <<StockEngineFrame, s_pc, s_idx, processed_markets, s_synced,
                   s_upd_status, s_upd_exec, failed_update_symbols, total_updated,
                   total_update_duration, total_inserted, total_insert_duration,
                   s_marked, market_result, runner_result>>

\* one turn of `for future in as_completed(futures)` of the insert pool, in the
\* thread of process_market_records: `if error is None:` the totals are added to
StockInsertFold ==
    /\ s_pc = "insert_run"
    /\ \E k \in 1..Len(s_ins_status) :
          /\ s_ins_status[k] \in {"done", "error"}
          /\ IF s_ins_status[k] = "done"
             THEN /\ s_ins_status' = [s_ins_status EXCEPT ![k] = "applied"]
                  /\ total_inserted' =
                        Fold(total_inserted, Len(Batches(new_records, batch_size)[k]))
                  /\ total_insert_duration' = Fold(total_insert_duration, Duration(k))
             ELSE /\ s_ins_status' = [s_ins_status EXCEPT ![k] = "failed"]
                  /\ UNCHANGED <<total_inserted, total_insert_duration>>
    /\ UNCHANGED <<StockEngineFrame, s_pc, s_idx, processed_markets, s_synced,
                   s_upd_status, s_upd_exec, failed_update_symbols, total_updated,
                   total_update_duration, s_marked, market_result, runner_result>>

\* the as_completed loop of the insert pool has consumed every future
StockInsertJoin ==
    /\ s_pc = "insert_run"
    /\ AllFolded(s_ins_status)
    /\ s_pc' = "mark"
    /\ UNCHANGED <<StockEngineFrame, s_idx, processed_markets, s_synced, s_upd_status,
                   s_upd_exec, failed_update_symbols,
                   s_ins_status, total_updated, total_update_duration, total_inserted,
                   total_insert_duration, s_marked, market_result,
                   runner_result>>

\* `if removed_symbols:` deleted_count, del_duration = mark_stocks_as_deleted(...).
\* mark_stocks_as_deleted returns one int (the row count, 0 on failure), so the
\* unpacking raises TypeError after the statement ran; without removed symbols the
\* result dict is returned and collect_all_stock_data goes on
StockMarkDeleted ==
    /\ s_pc = "mark"
    /\ IF removed_symbols = {}
       THEN /\ market_result' = market_result \cup {MarketOrder[s_idx]}
            /\ processed_markets' = processed_markets + 1
            /\ s_idx' = s_idx + 1
            /\ s_pc' = "loop"
            /\ UNCHANGED <<s_marked, runner_result>>
       ELSE /\ \/ s_marked' = removed_symbols
               \/ UNCHANGED s_marked
            /\ StockFail("cannot unpack non-iterable int object")
            /\ UNCHANGED <<market_result, processed_markets, s_idx>>
    \* the locals of process_market_records and of its caller end with the call
    /\ exist_records' = <<>> /\ new_records' = <<>> /\ removed_symbols' = {}
    /\ s_upd_status' = <<>> /\ s_ins_status' = <<>>
    /\ s_upd_exec' = <<>> /\ failed_update_symbols' = {}
    /\ total_updated' = 0 /\ total_inserted' = 0
    /\ total_update_duration' = 0 /\ total_insert_duration' = 0
    /\ UNCHANGED <<task, batch_size, xvars, pvars, fvars, task_result, factory_ok,
                   existing_symbols_map, s_now, s_month, s_attempt, skipped_markets,
                   s_open, s_fetched, s_fetch_failed, s_fetch_ok, s_synced>>

----------------------------------------------------------------------------
\* Specifications

StocksNext ==
    \/ StockConstruct \/ StockReadExisting \/ StockCheckOpen \/ StockFetch
    \/ StockClean \/ StockLoopEnd \/ RunStocksyncTask

Init == InitFunds \/ InitStocks

Next == FundsNext \/ StocksNext

\* one run of run_fundsync_task or of run_stocksync_task
Spec == Init /\ [][Next]_vars

\* record list of n stock records, symbols numbered from `from`
StockRecords(from, n) == [i \in 1..n |-> [symbol |-> from + i - 1, status |-> "L"]]

\* execute_batch_updates entered with any final_funds and the diff against any
\* existing code set
InitFundEngine ==
    /\ task = "fundsync"
    /\ ExtrasIdle
    /\ batch_size \in 1..MaxBatchSize
    /\ StocksIdle
    /\ f_pc = "mark"
    /\ fund_tasks = FundOrder /\ f_idx = Len(FundOrder) + 1 /\ f_attempt = 0
    /\ fund_data = NoData /\ success_types = FundTypes /\ failed_types = <<>>
    /\ merge_input = NoData /\ seen_codes = {}
    /\ final_funds \in {<<>>} \cup
          SeqsUpTo([code : Codes, type : {"OpenFund"}, price : {"10"}], MaxRecords)
    /\ fund_db \in [DbCodes -> {"absent", "L"}]
    /\ fund_price = [c \in DbCodes |-> IF fund_db[c] = "L" THEN OldPrice ELSE "absent"]
    /\ existing_codes = {c \in DbCodes : fund_db[c] = "L"}
    /\ new_codes = analyze_data_differences(final_funds, existing_codes).new_codes
    /\ removed_codes = analyze_data_differences(final_funds, existing_codes).removed_codes
    /\ update_codes = analyze_data_differences(final_funds, existing_codes).update_codes
    /\ ins_batches = <<>> /\ ins_status = <<>> /\ upd_batches = <<>> /\ upd_status = <<>>
    /\ upd_exec = <<>>
    /\ marked_deleted = {} /\ storage_calls = {"read_existing"}
    /\ runner_result = Pending /\ task_result = Pending
    /\ PolicyIdle

\* process_market_records entered for one market with any record lists
InitStockEngine ==
    /\ task = "stocksync"
    /\ ExtrasIdle
    /\ batch_size \in 1..MaxBatchSize
    /\ FundsIdle
    /\ s_pc = "update" /\ factory_ok = TRUE /\ existing_symbols_map = NoSymbols
    /\ s_idx \in 1..Len(MarketOrder) /\ s_attempt = 0
    /\ s_month = January
    /\ s_now \in {t \in EngineTimes :
                    check_market_open_status(MarketOrder[s_idx], t, s_month, 2,
                                             tolerance_seconds)}
    /\ processed_markets = 0 /\ skipped_markets = s_idx - 1
    /\ s_open = {MarketOrder[s_idx]} /\ s_fetched = s_open /\ s_fetch_ok = s_open
    /\ s_fetch_failed = {} /\ s_synced = {}
    /\ \E ne \in 0..MaxUpdates, nn \in 0..MaxRecords :
          /\ ne + nn <= MaxRecords
          /\ exist_records = StockRecords(1, ne)
          /\ new_records = StockRecords(ne + 1, nn)
    /\ removed_symbols \in {{}, {0}}
    /\ s_upd_status = <<>> /\ s_ins_status = <<>>
    /\ s_upd_exec = <<>> /\ failed_update_symbols = {}
    /\ total_updated = 0 /\ total_inserted = 0
    /\ total_update_duration = 0 /\ total_insert_duration = 0
    /\ s_marked = {} /\ market_result = {}
    /\ runner_result = Pending /\ task_result = Pending
    /\ PolicyIdle

InitEngine == InitFundEngine \/ InitStockEngine

FundEngineNext ==
    \/ FundMarkDeleted \/ FundInsertSubmit \/ FundInsertWorker \/ FundInsertJoin
    \/ FundUpdateSubmit \/ FundUpdateWorker \/ FundUpdateJoin \/ RunFundsyncTask

StockEngineNext ==
    \/ StockUpdateSubmit \/ StockUpdateWorker \/ StockUpdateFold \/ StockInsertSubmit
    \/ StockInsertWorker \/ StockInsertFold \/ StockInsertJoin \/ StockMarkDeleted
    \/ StockCheckOpen \/ StockFetch \/ StockClean \/ StockLoopEnd \/ RunStocksyncTask

EngineNext == FundEngineNext \/ StockEngineNext

\* the batch engines of both domains, entered with arbitrary record lists
SpecEngine == InitEngine /\ [][EngineNext]_vars

----------------------------------------------------------------------------
\* The error handling of BaseDataProcessor on its own: an error is raised in a
\* fetch attempt, classified, and the retry decision and the delay are computed

PolicyFrame == <<task, batch_size, xvars, fvars, svars, runner_result, task_result>>

InitPolicy ==
    /\ task = "policy"
    /\ ExtrasIdle
    /\ batch_size = MaxBatchSize
    /\ FundsIdle /\ StocksIdle
    /\ runner_result = Pending /\ task_result = Pending
    /\ p_pc = "raised" /\ p_error \in Errors(MaxPhrases) /\ p_kind = ""
    /\ p_attempt = 0 /\ p_max = 0 /\ p_base = 0 /\ p_retry = FALSE /\ p_delay = 0

\* error_type = self._classify_error(e)
PolicyClassify ==
    /\ p_pc = "raised"
    /\ p_kind' = _classify_error(p_error)
    /\ p_pc' = "classified"
    /\ UNCHANGED <<PolicyFrame, p_error, p_attempt, p_max, p_base, p_retry, p_delay>>

\* self._should_retry(error_type, attempt, max_retry)
PolicyShouldRetry ==
    /\ p_pc = "classified"
    /\ \E attempt \in 0..MaxAttempts, maxr \in 1..MaxAttempts :
          /\ p_attempt' = attempt
          /\ p_max' = maxr
          /\ p_retry' = _should_retry(p_kind, attempt, maxr)
    /\ p_error' = NoError
    /\ p_pc' = "decided"
    /\ UNCHANGED <<PolicyFrame, p_kind, p_base, p_delay>>

\* self._get_retry_delay(error_type, base_delay, attempt)
PolicyRetryDelay ==
    /\ p_pc = "classified"
    /\ \E attempt \in 0..MaxAttempts, base_delay \in 0..MaxBaseDelay :
          /\ p_attempt' = attempt
          /\ p_base' = base_delay
          /\ p_delay' = _get_retry_delay(p_kind, base_delay, attempt)
    /\ p_error' = NoError
    /\ p_pc' = "delayed"
    /\ UNCHANGED <<PolicyFrame, p_kind, p_max, p_retry>>

PolicyNext == PolicyClassify \/ PolicyShouldRetry \/ PolicyRetryDelay

SpecPolicy == InitPolicy /\ [][PolicyNext]_vars

----------------------------------------------------------------------------
\* The record cleaners on their own: each function of stock_cleaners.py and
\* FundDataProcessor.extract_fund_values is called once on an upstream table

MaxRows == 2          \* rows of the table handed to a cleaner

NaT == "NaT"
TimeCells == {NaN, "bad", "09:30:00"}     \* null cell, unparseable cell, clock time
PercentCells == {NaN, "bad", "5%"}        \* null cell, unparseable cell, percentage

\* pd.to_numeric(column, errors="coerce") on one cell
to_numeric(cell) == IF cell = "bad" THEN NaN ELSE cell

\* .fillna(0).astype(int) on one cell
fillna_int(cell) == IF cell = NaN THEN "0" ELSE cell

\* today_str + ' ' + dataframe["时间戳"] on one cell: a null cell stays null
today_plus(cell) ==
    IF cell = NaN THEN NaN
    ELSE IF cell = "bad" THEN "today bad" ELSE "today 09:30:00"

\* pd.to_datetime(column, errors="coerce") on one cell
to_datetime(cell) == IF cell \in {NaN, "bad", "today bad"} THEN NaT ELSE cell

\* .str.rstrip('%') on one cell of a column of strings, before astype(float)
rstrip_percent(cell) == IF cell = "5%" THEN "5" ELSE cell

\* what a call did: it returned records, or an exception left it
CleanerReturned(records) == [raised |-> "", records |-> records]
CleanerRaised(err) == [raised |-> err, records |-> <<>>]

\* the record both clean_a_stock_data and clean_hk_stock_data build of one row,
\* price standing for every column read with pd.to_numeric alone
RECURSIVE CleanTimedRows(_, _)
CleanTimedRows(rows, market) ==
    IF rows = <<>> THEN <<>>
    ELSE LET row == Head(rows)
             datetime == to_datetime(IF market = "A" THEN today_plus(row.time)
                                     ELSE row.time)
             rest == CleanTimedRows(Tail(rows), market)
         IN  IF datetime = NaT THEN rest       \* dropna(subset=["symbol", "datetime"])
             ELSE <<[symbol |-> row.symbol,
                     price |-> to_numeric(row.price),
                     volume |-> fillna_int(to_numeric(row.volume)),
                     datetime |-> datetime,
                     amplitude |-> None,
                     market |-> market,
                     status |-> "L"]>> \o rest

clean_a_stock_data(dataframe) == CleanerReturned(CleanTimedRows(dataframe.rows, "A"))

clean_hk_stock_data(dataframe) == CleanerReturned(CleanTimedRows(dataframe.rows, "HK"))

\* clean_us_stock_data: the amplitude column, when the table has it, is converted by
\* .str.rstrip('%').astype(float) before any record is built: .str raises
\* AttributeError on a column that holds no strings (dtype float64, all cells null),
\* astype(float) raises ValueError on a cell that is no number
clean_us_stock_data(dataframe) ==
    LET rows == dataframe.rows
    IN  IF dataframe.amplitude = "float64" THEN CleanerRaised("AttributeError")
        ELSE IF /\ dataframe.amplitude = "object"
                /\ \E i \in DOMAIN rows : rstrip_percent(rows[i].amplitude) = "bad"
             THEN CleanerRaised("ValueError")
        ELSE CleanerReturned(
                [i \in DOMAIN rows |->
                    [symbol |-> rows[i].symbol,
                     price |-> to_numeric(rows[i].price),
                     volume |-> fillna_int(to_numeric(rows[i].volume)),
                     datetime |-> "now",
                     amplitude |-> IF dataframe.amplitude = "absent" THEN None
                                   ELSE rstrip_percent(rows[i].amplitude),
                     market |-> "US",
                     status |-> "L"]])

\* The tables of a stock market: the A-share and HK tables have a timestamp column,
\* the US table may have an amplitude column, of strings or (all cells null) of floats
TimedRows == [symbol : Codes, price : RawPrices, volume : RawPrices, time : TimeCells,
              amplitude : {NaN}]
UsRows == [symbol : Codes, price : RawPrices, volume : RawPrices, time : {NaN},
           amplitude : PercentCells]

StockTables(market) ==
    IF market \in {"A", "HK"}
    THEN {[amplitude |-> "absent", rows |-> rs] : rs \in SeqsUpTo(TimedRows, MaxRows)}
    ELSE {[amplitude |-> "object", rows |-> rs] : rs \in SeqsUpTo(UsRows, MaxRows)}
         \cup {[amplitude |-> dtype, rows |-> rs] :
                 dtype \in {"absent", "float64"},
                 rs \in SeqsUpTo({r \in UsRows : r.amplitude = NaN}, MaxRows)}

InitCleaner ==
    /\ task = "cleaner"
    /\ batch_size = MaxBatchSize
    /\ FundsIdle /\ StocksIdle /\ PolicyIdle /\ ReconcileIdle /\ FirstCycle /\ WebIdle
    /\ runner_result = Pending /\ task_result = Pending
    /\ c_pc = "called" /\ c_out = <<>>
    /\ \/ \E market \in Markets :
             c_cleaner = market /\ c_table \in StockTables(market)
       \/ \E fund_type \in FundTypes :
             c_cleaner = fund_type /\ c_table \in Frames(MaxRows)

CleanerFrame == <<task, batch_size, pvars, fvars, svars, rvars, yvars, wvars, runner_result,
                  task_result, c_cleaner, c_table>>

\* the call ends with what the cleaner did
CleanerEnds(outcome) ==
    /\ c_pc' = (IF outcome.raised = "" THEN "returned" ELSE "raised")
    /\ c_out' = outcome.records
    /\ UNCHANGED CleanerFrame

CleanAStock ==
    /\ c_pc = "called" /\ c_cleaner = "A"
    /\ CleanerEnds(clean_a_stock_data(c_table))

CleanHkStock ==
    /\ c_pc = "called" /\ c_cleaner = "HK"
    /\ CleanerEnds(clean_hk_stock_data(c_table))

CleanUsStock ==
    /\ c_pc = "called" /\ c_cleaner = "US"
    /\ CleanerEnds(clean_us_stock_data(c_table))

ExtractFundValues ==
    /\ c_pc = "called" /\ c_cleaner \in FundTypes
    /\ CleanerEnds(CleanerReturned(extract_fund_values(c_table, c_cleaner)))

CleanerNext == CleanAStock \/ CleanHkStock \/ CleanUsStock \/ ExtractFundValues

SpecCleaner == InitCleaner /\ [][CleanerNext]_vars

----------------------------------------------------------------------------
\* One market's reconciliation on its own: the existing symbols are read from
\* stock_info, process_and_sync_stock_data classifies any cleaned rows against them
\* (whole or in chunks), and the statements of process_market_records run on
\* stock_info. Batching and the pools are the business of SpecEngine; here each
\* record's statement takes effect or not, as the transaction of its batch decides

MaxCleaned == 3       \* rows of cleaned_dataframe
chunk_size == 2       \* rows of a chunk (10000 in the source), scaled to MaxCleaned

\* rows of stock_info, by business key: none, or the row's status and quote columns;
\* status "DL": INSERT_STOCK added a Live row beside a Deleted row of the same key
NoRow == [status |-> "absent", quote |-> "none"]
StoredRows == {NoRow, [status |-> "L", quote |-> "old"], [status |-> "D", quote |-> "old"]}

\* StockSQL.GET_EXISTING_SYMBOLS on stock_info: the (symbol, market) of the Live rows
LiveRows(rows) ==
    {<<symbol, market>> \in Codes \X Markets : rows[market][symbol].status \in {"L", "DL"}}

\* get_existing_stock_symbols_by_market: symbol_map.setdefault(market, set()).add(symbol)
\* over the result rows read
symbol_map(result) ==
    [market \in {row[2] : row \in result} |->
        {row[1] : row \in {r \in result : r[2] = market}}]

\* existing_symbols_map.get(market_name, set())
map_get(map, market) == IF market \in DOMAIN map THEN map[market] ELSE {}

\* cleaned_dataframe["symbol"].unique() as a set
SymbolsOf(records) == {records[i].symbol : i \in DOMAIN records}

\* [r for r in records if r["symbol"] in existing_symbols]
chunk_exist(records, existing) == SelectSeq(records, LAMBDA r : r.symbol \in existing)

\* [r for r in records if r["symbol"] not in existing_symbols]
chunk_new(records, existing) == SelectSeq(records, LAMBDA r : r.symbol \notin existing)

\* A faulty chunk loop: exist_records = chunk_exist instead of extend(chunk_exist)
ExtendForgetting(list, chunk) == chunk

\* list.extend(chunk)
extend(list, chunk) == list \o chunk

\* cleaned_dataframe.iloc[i:chunk_end] with chunk_end = min(i + chunk_size, total_rows)
iloc(dataframe, i) ==
    SubSeq(dataframe, i + 1,
           IF i + chunk_size < Len(dataframe) THEN i + chunk_size ELSE Len(dataframe))

\* StockSQL.UPDATE_STOCK executed for the records: the quote columns of every row
\* WHERE symbol = :symbol AND market = :market, whatever its status
UpdateStockRows(rows, records, market) ==
    [m \in Markets |-> [symbol \in Codes |->
        IF m = market /\ symbol \in SymbolsOf(records) /\ rows[m][symbol] # NoRow
        THEN [rows[m][symbol] EXCEPT !.quote = "new"]
        ELSE rows[m][symbol]]]

\* StockSQL.INSERT_STOCK executed for the records, record['market'] = market_name:
\* a Live row of the record's key; beside a row the key already has, when the
\* table accepts it
InsertStockRows(rows, records, market) ==
    [m \in Markets |-> [symbol \in Codes |->
        IF m = market /\ symbol \in SymbolsOf(records)
        THEN [status |-> IF rows[m][symbol].status \in {"D", "DL"} THEN "DL" ELSE "L",
              quote |-> "new"]
        ELSE rows[m][symbol]]]

\* A faulty statement: MARK_STOCKS_DELETED without its market condition
MarkDeletedInEveryMarket(rows, symbols, market) ==
    [m \in Markets |-> [symbol \in Codes |->
        IF symbol \in symbols /\ rows[m][symbol] # NoRow
        THEN [rows[m][symbol] EXCEPT !.status = "D"]
        ELSE rows[m][symbol]]]

\* StockSQL.MARK_STOCKS_DELETED: status 'D' WHERE symbol = ANY(:symbols) AND market = :market
MarkStocksDeletedRows(rows, symbols, market) ==
    [m \in Markets |-> [symbol \in Codes |->
        IF m = market /\ symbol \in symbols /\ rows[m][symbol] # NoRow
        THEN [rows[m][symbol] EXCEPT !.status = "D"]
        ELSE rows[m][symbol]]]

\* the records among `records` at the positions of `applied`
RecordsAt(records, applied) ==
    SelectSeq(records, LAMBDA r : r.row \in {records[i].row : i \in applied})

\* the cleaned tables: up to MaxCleaned rows, any symbols (a symbol may repeat)
CleanedTables ==
    {<<>>} \cup {[i \in DOMAIN symbols |-> [symbol |-> symbols[i], row |-> i]] :
                    symbols \in SeqsUpTo(Codes, MaxCleaned)}

InitReconcile ==
    /\ task = "reconcile"
    /\ batch_size = MaxBatchSize
    /\ FundsIdle /\ StocksIdle /\ PolicyIdle /\ CleanerIdle /\ FirstCycle /\ WebIdle
    /\ runner_result = Pending /\ task_result = Pending
    /\ r_pc = "read"
    /\ market_name \in Markets
    /\ stock_info \in [Markets -> [Codes -> StoredRows]]
    /\ cleaned_dataframe \in CleanedTables
    /\ existing_symbols = {} /\ chunk_i = 0
    /\ r_exist_records = <<>> /\ r_new_records = <<>>
    /\ r_new_symbols = {} /\ r_removed_symbols = {}

\* what one invocation leaves alone
ReconcileFrame == <<task, batch_size, pvars, fvars, svars, cvars, wvars, runner_result,
                    task_result, market_name, cleaned_dataframe>>

ListsFrame == <<existing_symbols, chunk_i, r_exist_records, r_new_records,
                r_new_symbols, r_removed_symbols>>

\* get_existing_stock_symbols_by_market, then existing_symbols_map.get(market_name,
\* set()): the map of every row of the result or, when the query or the iteration
\* raises, of the rows read until then
ReconcileReadExisting ==
    /\ r_pc = "read"
    /\ \E result \in SUBSET LiveRows(stock_info) :
          /\ \A row \in LiveRows(stock_info) \ result : row[2] = market_name
          /\ existing_symbols' = map_get(symbol_map(result), market_name)
    /\ r_pc' = "reconcile"
    /\ UNCHANGED <<ReconcileFrame, yvars, stock_info, chunk_i, r_exist_records, r_new_records,
                   r_new_symbols, r_removed_symbols>>

\* total_rows <= chunk_size: the table is classified whole; then removed_symbols
ReconcileWhole ==
    /\ r_pc = "reconcile"
    /\ Len(cleaned_dataframe) <= chunk_size
    /\ r_new_symbols' = SymbolsOf(cleaned_dataframe)
    /\ r_exist_records' = chunk_exist(cleaned_dataframe, existing_symbols)
    /\ r_new_records' = chunk_new(cleaned_dataframe, existing_symbols)
    /\ r_removed_symbols' = existing_symbols \ r_new_symbols'
    /\ r_pc' = "update"
    /\ UNCHANGED <<ReconcileFrame, yvars, stock_info, existing_symbols, chunk_i>>

\* total_rows > chunk_size: one turn of `for i in range(0, total_rows, chunk_size)`;
\* after the last turn, removed_symbols
ReconcileChunk ==
    /\ r_pc = "reconcile"
    /\ Len(cleaned_dataframe) > chunk_size
    /\ chunk_i < Len(cleaned_dataframe)
    /\ LET chunk_records == iloc(cleaned_dataframe, chunk_i)
       IN  /\ r_new_symbols' = r_new_symbols \cup SymbolsOf(chunk_records)
           /\ r_exist_records' =
                 extend(r_exist_records, chunk_exist(chunk_records, existing_symbols))
           /\ r_new_records' =
                 extend(r_new_records, chunk_new(chunk_records, existing_symbols))
    /\ chunk_i' = chunk_i + chunk_size
    /\ IF chunk_i' < Len(cleaned_dataframe)
       THEN UNCHANGED <<r_pc, r_removed_symbols>>
       ELSE /\ r_removed_symbols' = existing_symbols \ r_new_symbols'
            /\ r_pc' = "update"
    /\ UNCHANGED <<ReconcileFrame, yvars, stock_info, existing_symbols>>

\* `if exist_records:` the update pool: the statements of the records whose batch
\* commits take effect
ReconcileUpdate ==
    /\ r_pc = "update"
    /\ \E applied \in SUBSET DOMAIN r_exist_records :
          stock_info' = UpdateStockRows(stock_info, RecordsAt(r_exist_records, applied),
                                        market_name)
    /\ r_pc' = "insert"
    /\ UNCHANGED <<ReconcileFrame, yvars, ListsFrame>>

\* `if new_records:` the insert pool
ReconcileInsert ==
    /\ r_pc = "insert"
    /\ \E applied \in SUBSET DOMAIN r_new_records :
          stock_info' = InsertStockRows(stock_info, RecordsAt(r_new_records, applied),
                                        market_name)
    /\ r_pc' = "mark"
    /\ UNCHANGED <<ReconcileFrame, yvars, ListsFrame>>

\* `if removed_symbols:` mark_stocks_as_deleted, whose transaction commits or fails;
\* unpacking its int result raises TypeError. Without removed symbols the result
\* dict is returned
ReconcileMark ==
    /\ r_pc = "mark"
    /\ IF r_removed_symbols = {}
       THEN /\ r_pc' = "returned"
            /\ UNCHANGED stock_info
       ELSE /\ \E committed \in BOOLEAN :
                  stock_info' =
                     TransactionEffect(stock_info,
                        MarkStocksDeletedRows(stock_info, r_removed_symbols, market_name),
                        committed)
            /\ r_pc' = "raised"
    /\ UNCHANGED <<ReconcileFrame, yvars, ListsFrame>>

ReconcileNext ==
    \/ ReconcileReadExisting \/ ReconcileWhole \/ ReconcileChunk
    \/ ReconcileUpdate \/ ReconcileInsert \/ ReconcileMark

SpecReconcile == InitReconcile /\ [][ReconcileNext]_vars

----------------------------------------------------------------------------
\* Consecutive cycles: the task is invoked again after a cycle in which an insert
\* or an update failed, and the upstream delivers what it delivered before. Every
\* invocation builds its processor, its lists and its pools anew (fundsync/index.py
\* sync_task_runner, stocksync/index.py sync_task_runner): the storage is all that
\* is left of the cycle before

MaxCycleRecords == 3      \* records the upstream delivers in each of two funds cycles

\* FundSQL.GET_EXISTING_FUND_CODES on fund_info: the codes of the Live rows
get_existing_fund_codes(rows) == {c \in DbCodes : rows[c] = "L"}

\* the codes of the batches with status v
CodesWith(batches, status, v) ==
    UNION {CodesOf(batches[k]) : k \in {j \in DOMAIN batches : status[j] = v}}

\* the next funds cycle, up to its diff: collect and merge yield final_funds again,
\* get_existing_fund_codes reads fund_info, analyze_data_differences classifies
FundNextCycle ==
    /\ task = "fundsync" /\ cycle = 1
    /\ f_pc = "raised" /\ task_result # Pending
    /\ AnyWith(ins_status, "failed") \/ AnyWith(upd_status, "failed")
    /\ cycle' = 2
    /\ failed_keys' = CodesWith(ins_batches, ins_status, "failed")
                         \cup CodesWith(upd_batches, upd_status, "failed")
    /\ existing_codes' = get_existing_fund_codes(fund_db)
    /\ LET d == analyze_data_differences(final_funds, existing_codes')
       IN  /\ new_codes' = d.new_codes
           /\ removed_codes' = d.removed_codes
           /\ update_codes' = d.update_codes
    /\ ins_batches' = <<>> /\ ins_status' = <<>>
    /\ upd_batches' = <<>> /\ upd_status' = <<>> /\ upd_exec' = <<>>
    /\ marked_deleted' = {} /\ storage_calls' = {"read_existing"}
    /\ runner_result' = Pending /\ task_result' = Pending
    /\ f_pc' = "mark"
    /\ UNCHANGED <<task, batch_size, pvars, svars, cvars, rvars, wvars, fund_tasks, f_idx,
                   f_attempt, fund_data, success_types, failed_types, final_funds,
                   seen_codes, fund_db, fund_price, merge_input>>

\* the rows of the market a statement of cycle 1 should have written and did not:
\* the row of an update record still has its old quote, the key of an insert
\* record has no Live row
StockFailedKeys ==
    {symbol \in SymbolsOf(r_exist_records) :
        stock_info[market_name][symbol].quote = "old"}
    \cup {symbol \in SymbolsOf(r_new_records) :
             stock_info[market_name][symbol].status \notin {"L", "DL"}}

\* the next stocks cycle of the market: the fetch and the cleaning yield
\* cleaned_dataframe again, the existing symbols are read anew
StockNextCycle ==
    /\ task = "reconcile" /\ cycle = 1
    /\ r_pc \in {"returned", "raised"}
    /\ StockFailedKeys # {}
    /\ cycle' = 2
    /\ failed_keys' = StockFailedKeys
    /\ existing_symbols' = {} /\ chunk_i' = 0
    /\ r_exist_records' = <<>> /\ r_new_records' = <<>>
    /\ r_new_symbols' = {} /\ r_removed_symbols' = {}
    /\ r_pc' = "read"
    /\ UNCHANGED <<ReconcileFrame, stock_info>>

\* cycle 1 of the stocks side: one market with both symbols delivered
InitCycles ==
    \/ InitFundEngine /\ batch_size = 1 /\ Len(final_funds) <= MaxCycleRecords
    \/ /\ InitReconcile
       /\ market_name = "A"
       /\ \A market \in Markets \ {"A"} : \A symbol \in Codes :
             stock_info[market][symbol] = NoRow

CyclesNext == FundEngineNext \/ FundNextCycle \/ ReconcileNext \/ StockNextCycle

SpecCycles == InitCycles /\ [][CyclesNext]_vars

\* ---------------------------------------------------------------------------
\* web/cache.py: MemoryCache.  Every call reads time.time() where the code
\* reads it; a later reading is never smaller than an earlier one.
\* ---------------------------------------------------------------------------

MaxClock == 3

\* config.CACHE_TTL (300 unless the environment says otherwise), scaled down
CACHE_TTL == 2

\* set() calls _cleanup_lru when len(_cache) > 1000; scaled down
CacheLimit == 1

\* _cleanup_lru keeps the 800 most recently accessed keys; scaled down
LruKeep == 1

\* set(key, value, ttl=None): the argument ttl left out
NoTtl == -1

Keys == {"k1", "k2"}

Values == {"v1", "v2"}

Ttls == {NoTtl, 0, 1}

Restrict(f, S) == [k \in S |-> f[k]]

Put(f, k, v) == [x \in DOMAIN f \cup {k} |-> IF x = k THEN v ELSE f[x]]

\* _cleanup_expired: current_time > data['expires_at']
expired(current_time, data) == current_time > data.expires_at

\* the keys _cleanup_expired leaves
unexpired_keys(cache, current_time) ==
    {k \in DOMAIN cache : ~expired(current_time, cache[k])}

AlwaysFresh(current_time, data) == TRUE

\* get: current_time <= self._cache[key]['expires_at']
fresh(current_time, data) == current_time <= data.expires_at

\* _cleanup_lru: the key sets that sorting by access time, latest first, and
\* keeping the first LruKeep can leave; keys of equal access time in any order
_cleanup_lru(access) ==
    {K \in SUBSET DOMAIN access :
        /\ Cardinality(K) = Min(LruKeep, Cardinality(DOMAIN access))
        /\ \A a \in K : \A b \in DOMAIN access \ K : access[a] >= access[b]}

InitCache ==
    /\ task = "cache"
    /\ batch_size = 1
    /\ runner_result = None /\ task_result = None
    /\ FundsIdle /\ StocksIdle /\ PolicyIdle /\ CleanerIdle /\ ReconcileIdle /\ FirstCycle
    /\ clock = 0
    /\ _cache = <<>> /\ _access_times = <<>> /\ latest_set = <<>>
    /\ cache_call = [name |-> "__init__", key |-> None, returned |-> None]
    /\ _requests = <<>> /\ max_requests = 0 /\ window_seconds = 0
    /\ admitted = <<>> /\ limiter_call = <<>>

CacheFrame == <<task, batch_size, pvars, fvars, svars, cvars, rvars, yvars, runner_result,
                task_result, _requests, max_requests, window_seconds, admitted, limiter_call>>

\* MemoryCache.set
CacheSet ==
    /\ task = "cache"
    /\ \E key \in Keys : \E value \in Values : \E ttl \in Ttls :
       \E current_time \in clock..MaxClock :
         LET ttl1 == IF ttl = NoTtl THEN CACHE_TTL ELSE ttl
             data == [value |-> value, expires_at |-> current_time + ttl1,
                      created_at |-> current_time]
             cache1 == Put(_cache, key, data)
             access1 == Put(_access_times, key, current_time)
         IN  /\ IF Cardinality(DOMAIN cache1) > CacheLimit
                THEN \E K \in _cleanup_lru(access1) :
                        /\ _cache' = Restrict(cache1, K)
                        /\ _access_times' = Restrict(access1, K)
                ELSE /\ _cache' = cache1
                     /\ _access_times' = access1
             /\ latest_set' = Put(latest_set, key,
                                  [value |-> value, time |-> current_time, ttl |-> ttl1])
             /\ clock' = current_time
             /\ cache_call' = [name |-> "set", key |-> key, returned |-> None]
    /\ UNCHANGED CacheFrame

\* MemoryCache.get: _cleanup_expired reads the clock, then get reads it again
CacheGet ==
    /\ task = "cache"
    /\ \E key \in Keys : \E cleanup_time \in clock..MaxClock :
       \E current_time \in cleanup_time..MaxClock :
         LET kept == unexpired_keys(_cache, cleanup_time)
             cache1 == Restrict(_cache, kept)
             access1 == Restrict(_access_times, kept)
         IN  /\ IF key \in kept
                THEN IF fresh(current_time, cache1[key])
                     THEN /\ _cache' = cache1
                          /\ _access_times' = Put(access1, key, current_time)
                          /\ cache_call' = [name |-> "get", key |-> key,
                                            returned |-> cache1[key].value]
                     ELSE /\ _cache' = Restrict(cache1, kept \ {key})
                          /\ _access_times' = Restrict(access1, kept \ {key})
                          /\ cache_call' = [name |-> "get", key |-> key, returned |-> None]
                ELSE /\ _cache' = cache1
                     /\ _access_times' = access1
                     /\ cache_call' = [name |-> "get", key |-> key, returned |-> None]
             /\ clock' = current_time
    /\ UNCHANGED <<CacheFrame, latest_set>>

\* MemoryCache.delete
CacheDelete ==
    /\ task = "cache"
    /\ \E key \in Keys :
         /\ _cache' = Restrict(_cache, DOMAIN _cache \ {key})
         /\ _access_times' = Restrict(_access_times, DOMAIN _access_times \ {key})
         /\ latest_set' = Restrict(latest_set, DOMAIN latest_set \ {key})
         /\ cache_call' = [name |-> "delete", key |-> key,
                           returned |-> IF key \in DOMAIN _cache THEN "True" ELSE "False"]
    /\ UNCHANGED <<CacheFrame, clock>>

\* MemoryCache.clear
CacheClear ==
    /\ task = "cache"
    /\ _cache' = <<>>
    /\ _access_times' = <<>>
    /\ latest_set' = <<>>
    /\ cache_call' = [name |-> "clear", key |-> None, returned |-> None]
    /\ UNCHANGED <<CacheFrame, clock>>

CacheNext == CacheSet \/ CacheGet \/ CacheDelete \/ CacheClear

SpecCache == InitCache /\ [][CacheNext]_vars

\* ---------------------------------------------------------------------------
\* web/cache.py: RateLimiter behind the rate_limited decorator.  The requests
\* of the model are served one after the other.
\* ---------------------------------------------------------------------------

MaxRequests == 2

MaxWindow == 2

Clients == {"c1", "c2"}

\* _cleanup_old_requests, given the reading of the clock it takes
_cleanup_old_requests(requests, client_id, window, current_time) ==
    LET cutoff_time == current_time - window
    IN  IF client_id \in DOMAIN requests
        THEN [requests EXCEPT ![client_id] =
                SelectSeq(requests[client_id], LAMBDA req_time : req_time > cutoff_time)]
        ELSE requests

\* the admitted calls that can still share a window with a later call
recent(calls, window, current_time) ==
    SelectSeq(calls, LAMBDA call : \/ call.recorded > current_time - window
                                   \/ call.finished > current_time - window)

InitLimiter ==
    /\ task = "limiter"
    /\ batch_size = 1
    /\ runner_result = None /\ task_result = None
    /\ FundsIdle /\ StocksIdle /\ PolicyIdle /\ CleanerIdle /\ ReconcileIdle /\ FirstCycle
    /\ clock = 0
    /\ _cache = <<>> /\ _access_times = <<>> /\ latest_set = <<>> /\ cache_call = <<>>
    /\ _requests = <<>>
    /\ max_requests \in 1..MaxRequests
    /\ window_seconds \in 1..MaxWindow
    /\ admitted = [c \in Clients |-> <<>>]
    /\ limiter_call = [client |-> None, allowed |-> None]

LimiterFrame == <<task, batch_size, pvars, fvars, svars, cvars, rvars, yvars, runner_result,
                  task_result, _cache, _access_times, latest_set, cache_call,
                  max_requests, window_seconds>>

\* one request through the wrapper of rate_limited: is_allowed reads the
\* clock, _cleanup_old_requests reads it again; a rejected request goes on to
\* get_remaining_requests, which cleans up with a third reading
RateLimited ==
    /\ task = "limiter"
    /\ \E client_id \in Clients : \E current_time \in clock..MaxClock :
       \E cleanup_time \in current_time..MaxClock :
         LET cleaned == _cleanup_old_requests(_requests, client_id, window_seconds,
                                              cleanup_time)
             requests1 == IF client_id \in DOMAIN cleaned THEN cleaned
                          ELSE Put(cleaned, client_id, <<>>)
         IN  IF Len(requests1[client_id]) >= max_requests
             THEN \E remaining_time \in cleanup_time..MaxClock :
                    /\ _requests' = _cleanup_old_requests(requests1, client_id,
                                                          window_seconds, remaining_time)
                    /\ clock' = remaining_time
                    /\ admitted' = [c \in Clients |->
                                      recent(admitted[c], window_seconds, remaining_time)]
                    /\ limiter_call' = [client |-> client_id, allowed |-> "False"]
             ELSE /\ _requests' = [requests1 EXCEPT ![client_id] = Append(@, current_time)]
                  /\ clock' = cleanup_time
                  /\ admitted' = [c \in Clients |->
                        recent(IF c = client_id
                               THEN Append(admitted[c], [recorded |-> current_time,
                                                         finished |-> cleanup_time])
                               ELSE admitted[c], window_seconds, cleanup_time)]
                  /\ limiter_call' = [client |-> client_id, allowed |-> "True"]
    /\ UNCHANGED LimiterFrame

LimiterNext == RateLimited

SpecLimiter == InitLimiter /\ [][LimiterNext]_vars

----------------------------------------------------------------------------
\* Properties

DomesticTypes == {DomesticOrder[i] : i \in 1..Len(DomesticOrder)}
QdiiTypes == {QdiiOrder[i] : i \in 1..Len(QdiiOrder)}

\* the funds run is past integrate_fund_data
AfterIntegrate ==
    /\ task = "fundsync"
    /\ f_pc \notin {"idle", "connect", "no_engine", "collect", "aborted", "integrate"}

\* the funds run is past analyze_data_differences
AfterDiff ==
    /\ task = "fundsync"
    /\ \/ f_pc \in {"mark", "insert", "insert_run", "update", "update_run", "completed"}
       \/ f_pc = "raised" /\ runner_result.error # "read_existing"

\* the funds or the stocks sync_task_runner has ended
RunEnded == f_pc \in {"no_engine", "aborted", "completed", "raised"} \/ s_pc = "done"

CeilDiv(n, d) == IF n % d = 0 THEN n \div d ELSE n \div d + 1

\* batches cuts list into consecutive slices, in order: full ones, then a last
\* one of 1..bs records
CutsInOrder(batches, list, bs) ==
    /\ Len(batches) = CeilDiv(Len(list), bs)
    /\ \A k \in 1..Len(batches) :
          /\ k < Len(batches) => Len(batches[k]) = bs
          /\ Len(batches[k]) \in 1..bs
          /\ batches[k] = SubSeq(list, (k - 1) * bs + 1, (k - 1) * bs + Len(batches[k]))
    /\ Flatten(batches) = list

\* C1. Funds all-or-nothing gate: once a required source kind has failed to fetch or
\* has yielded no usable record, the run can only go on collecting and then end
\* aborted, and no storage operation (read existing keys, mark deleted, insert,
\* update) is ever invoked.
C1_GateAbortsBeforeStorage ==
    (task = "fundsync" /\ failed_types # <<>>) =>
        /\ f_pc \in {"collect", "aborted"}
        /\ storage_calls = {}
        /\ fund_db = Unobserved /\ marked_deleted = {}
        /\ ins_status = <<>> /\ upd_status = <<>>
        /\ f_pc = "aborted" => runner_result = Returned("None", FALSE, "")

\* four kinds delivered, one failed, the run ended aborted and was reported
C1_Witness ==
    /\ task = "fundsync" /\ f_pc = "aborted"
    /\ Len(fund_tasks) = 5 /\ Len(failed_types) = 1 /\ Cardinality(success_types) = 4
    /\ task_result # Pending

\* C2. Batch fault isolation in both engines: when the transaction of an insert or
\* update batch has failed, every batch of the run (same kind and other kind) has
\* still been executed, the failure has not left the engine as an exception, and
\* the stocks aggregate counts exactly the records of the committed batches.
C2_BatchFailureIsolated ==
    /\ (/\ task = "fundsync" /\ f_pc \in {"completed", "raised"}
        /\ AnyWith(ins_status, "failed") \/ AnyWith(upd_status, "failed"))
       => /\ runner_result.kind # "exception"
          /\ Len(ins_status) = CeilDiv(Len(FilterCodes(final_funds, new_codes)), batch_size)
          /\ Len(upd_status) =
                CeilDiv(Len(FilterCodes(final_funds, update_codes)), batch_size)
          /\ ~AnyWith(ins_status, "pending") /\ ~AnyWith(upd_status, "pending")
    /\ (/\ task = "stocksync" /\ s_pc = "mark"
        /\ AnyWith(s_upd_status, "failed") \/ AnyWith(s_ins_status, "failed"))
       => /\ Len(s_upd_status) = CeilDiv(Len(exist_records), batch_size)
          /\ Len(s_ins_status) = CeilDiv(Len(new_records), batch_size)
          /\ ~AnyWith(s_upd_status, "pending") /\ ~AnyWith(s_ins_status, "pending")
          /\ total_updated =
                Len(AppliedRecords(Batches(exist_records, batch_size), s_upd_status))
          /\ total_inserted =
                Len(AppliedRecords(Batches(new_records, batch_size), s_ins_status))

\* C3. Diff: with C the keys of the current records and E the existing keys,
\* ToInsert = C \ E, ToRemove = E \ C, ToUpdate = C \cap E; the three sets are
\* pairwise disjoint and their union is C \cup E, so every current key is in exactly
\* one of ToInsert and ToUpdate.
C3_DiffPartition ==
    AfterDiff =>
        LET C == CodesOf(final_funds)
            E == existing_codes
        IN  /\ new_codes = C \ E
            /\ removed_codes = E \ C
            /\ update_codes = C \cap E
            /\ new_codes \cap removed_codes = {}
            /\ new_codes \cap update_codes = {}
            /\ removed_codes \cap update_codes = {}
            /\ new_codes \cup removed_codes \cup update_codes = C \cup E
            /\ \A c \in C : (c \in new_codes) # (c \in update_codes)

\* the diff ran with a key to insert, a key to remove and a key to update
C3_Witness ==
    /\ AfterDiff /\ f_pc = "mark"
    /\ new_codes # {} /\ removed_codes # {} /\ update_codes # {}

\* C4. Merge precedence: a key that a domestic source delivered with a non-null
\* price is in the merged list as a domestic record and never as a QDII record; a
\* QDII record is in the merged list only where no earlier record has its key.
C4_DomesticPrecedence ==
    AfterIntegrate =>
        LET DomesticKeys ==
                {c \in Codes : \E t \in DomesticTypes : \E i \in 1..Len(merge_input[t]) :
                    merge_input[t][i].code = c /\ merge_input[t][i].price # None}
        IN  /\ \A i \in 1..Len(final_funds) :
                  final_funds[i].type \in QdiiTypes =>
                      /\ final_funds[i].code \notin DomesticKeys
                      /\ \A j \in 1..(i - 1) : final_funds[j].code # final_funds[i].code
            /\ \A c \in DomesticKeys :
                  \E i \in 1..Len(final_funds) :
                      final_funds[i].code = c /\ final_funds[i].type \in DomesticTypes
            /\ \A i \in 1..Len(final_funds) :
                  \E k \in 1..Len(merge_input[final_funds[i].type]) :
                      merge_input[final_funds[i].type][k] = final_funds[i]

\* domestic {X: 10} merged with QDII {X, Y}: X stays domestic, Y is supplemented
C4_Witness ==
    /\ AfterIntegrate
    /\ \E t \in DomesticTypes : \E i \in 1..Len(merge_input[t]) :
          merge_input[t][i].code = "X" /\ merge_input[t][i].price = "10"
    /\ \E t \in QdiiTypes : \E i \in 1..Len(merge_input[t]) : merge_input[t][i].code = "X"
    /\ \E i \in 1..Len(final_funds) :
          final_funds[i].code = "Y" /\ final_funds[i].type \in QdiiTypes
    /\ \A i \in 1..Len(final_funds) :
          final_funds[i].code = "X" => final_funds[i].type \in DomesticTypes

\* C5. No record with a null price is in the merged list, whether it came from a
\* domestic or from a QDII source.
C5_NoNullPriceMerged ==
    AfterIntegrate => \A i \in 1..Len(final_funds) : final_funds[i].price # None

\* C6. Stocks, fetch failure of one market: at the end of the run every market after
\* a market whose fetch failed has had its turn, and has been synced if its own
\* fetch succeeded.
C6_FetchFailureIsolated ==
    (task = "stocksync" /\ s_pc = "done" /\ factory_ok) =>
        \A i \in 1..Len(MarketOrder) :
            MarketOrder[i] \in s_fetch_failed =>
                \A j \in (i + 1)..Len(MarketOrder) :
                    /\ j < s_idx
                    /\ MarketOrder[j] \in s_fetch_ok => MarketOrder[j] \in s_synced

\* C7. Stocks, per-market isolation: whatever happened while a market was synced
\* (any outcome of its batches, ToRemove empty or not), at the end of the run every
\* later market has had its turn, and has been synced if its fetch succeeded.
C7_MarketSyncIsolated ==
    (task = "stocksync" /\ s_pc = "done") =>
        \A i \in 1..Len(MarketOrder) :
            MarketOrder[i] \in s_synced =>
                \A j \in (i + 1)..Len(MarketOrder) :
                    /\ j < s_idx
                    /\ MarketOrder[j] \in s_fetch_ok => MarketOrder[j] \in s_synced

\* C8. Every sync run (funds or stocks sync_task_runner) that has ended has handed
\* its caller a result object; no fault has escaped it as an exception.
C8_RunnerReturnsResult ==
    RunEnded => runner_result.kind = "dict"

\* C9. The funds result tells the outcomes apart: a run that completed, and a run
\* that reached storage and had a failed batch, hand back (from sync_task_runner and
\* from run_fundsync_task) something else than the run aborted at the gate does.
\* The aborted run returns None, reported as the failure dict with TaskFailed.
C9_OutcomesDistinguished ==
    LET aborted_return == Returned("None", FALSE, "")
    IN  /\ (task = "fundsync" /\ f_pc = "aborted") => runner_result = aborted_return
        /\ (task = "fundsync" /\ f_pc \in {"completed", "raised"}) =>
              /\ runner_result # aborted_return
              /\ task_result # Pending => task_result # run_task_report(aborted_return)

\* C10. Batching: n records are cut into ceil(n / batch_size) consecutive batches in
\* list order, all of batch_size records but the last, which has 1..batch_size; and
\* when no worker failed the applied counts add up to n.
C10_BatchingCoversList ==
    /\ f_pc = "insert_run" =>
          CutsInOrder(ins_batches, FilterCodes(final_funds, new_codes), batch_size)
    /\ f_pc = "update_run" =>
          CutsInOrder(upd_batches, FilterCodes(final_funds, update_codes), batch_size)
    /\ (f_pc \in {"update", "update_run", "completed"} /\ ~AnyWith(ins_status, "failed")) =>
          Len(AppliedRecords(ins_batches, ins_status))
              = Len(FilterCodes(final_funds, new_codes))
    /\ (f_pc = "completed" /\ ~AnyWith(upd_status, "failed")) =>
          Len(AppliedRecords(upd_batches, upd_status))
              = Len(FilterCodes(final_funds, update_codes))
    /\ s_pc \in {"update_run", "insert_run", "mark"} =>
          /\ Len(s_upd_status) = CeilDiv(Len(exist_records), batch_size)
          /\ CutsInOrder(Batches(exist_records, batch_size), exist_records, batch_size)
    /\ s_pc \in {"insert_run", "mark"} =>
          /\ Len(s_ins_status) = CeilDiv(Len(new_records), batch_size)
          /\ CutsInOrder(Batches(new_records, batch_size), new_records, batch_size)
    /\ (/\ s_pc = "mark"
        /\ ~AnyWith(s_upd_status, "failed") /\ ~AnyWith(s_ins_status, "failed")) =>
          /\ total_updated = Len(exist_records)
          /\ total_inserted = Len(new_records)

\* five records inserted in batches of two: three batches, all committed, five counted
C10_Witness ==
    /\ task = "stocksync" /\ s_pc = "mark" /\ batch_size = 2
    /\ Len(new_records) = 5 /\ Len(s_ins_status) = 3
    /\ ~AnyWith(s_ins_status, "failed")
    /\ total_inserted = 5

----------------------------------------------------------------------------
\* Error classification, retry decision and retry delay

\* The rules of _classify_error in the order of their if statements
RuleOrder ==
    <<"CHUNKED_ENCODING", "TIMEOUT", "NETWORK", "RATE_LIMIT", "SERVER_ERROR", "AUTH_ERROR",
      "NOT_FOUND", "NO_DATA", "PANDAS_MISMATCH", "DATA_FORMAT_ERROR", "DATABASE_ERROR">>

\* the condition of one rule of _classify_error taken alone
RuleMatches(kind, error) ==
    LET text == error_str(error)
    IN  CASE kind = "CHUNKED_ENCODING" ->
                 error.type = "ChunkedEncodingError" \/ text \cap ChunkedKeywords # {}
          [] kind = "TIMEOUT" -> text \cap TimeoutKeywords # {}
          [] kind = "NETWORK" -> text \cap NetworkKeywords # {}
          [] kind = "RATE_LIMIT" -> text \cap RateLimitKeywords # {}
          [] kind = "SERVER_ERROR" -> text \cap ServerKeywords # {}
          [] kind = "AUTH_ERROR" -> text \cap AuthKeywords # {}
          [] kind = "NOT_FOUND" -> text \cap NotFoundKeywords # {}
          [] kind = "NO_DATA" -> text \cap NoDataKeywords # {}
          [] kind = "PANDAS_MISMATCH" -> MismatchKeywords \subseteq text
          [] kind = "DATA_FORMAT_ERROR" -> text \cap FormatKeywords # {}
          [] kind = "DATABASE_ERROR" ->
                 text \cap DatabaseKeywords # {} \/ error.type \in DatabaseTypes
          [] OTHER -> FALSE

\* C11: shouldRetry(kind, a, m) is true exactly when a < m, the kind is none of
\* AuthError, NotFound, DataFormatError, and it is not RateLimit at a >= 2
C11_ShouldRetryPolicy ==
    p_pc = "decided" =>
        (p_retry <=>
            /\ p_attempt < p_max
            /\ p_kind \notin {"AUTH_ERROR", "NOT_FOUND", "DATA_FORMAT_ERROR"}
            /\ ~(p_kind = "RATE_LIMIT" /\ p_attempt >= 2))

\* a rate-limit error on attempt 1 of 5 is retried
C11_Witness ==
    /\ p_pc = "decided" /\ p_kind = "RATE_LIMIT"
    /\ p_attempt = 1 /\ p_max = 5 /\ p_retry

\* C12 (as stated): every error whose message contains "timeout" in any letter
\* case is classified Timeout, whatever else the message or the type contains
C12_TimeoutAlways ==
    (p_pc = "classified" /\ p_error.msg \cap {"timeout", "TIMEOUT"} # {})
        => p_kind = "TIMEOUT"

\* C12 (amended): an error whose message contains "timeout" in any letter case
\* is classified Timeout unless the encoding rule matches it, i.e. unless its
\* type is ChunkedEncodingError or its message contains "chunked encoding"
C12_TimeoutUnlessEncoding ==
    (/\ p_pc = "classified"
     /\ p_error.msg \cap {"timeout", "TIMEOUT"} # {}
     /\ p_error.type # "ChunkedEncodingError"
     /\ p_error.msg \cap {"chunked encoding", "Chunked Encoding"} = {})
        => p_kind = "TIMEOUT"

\* an upper-case TIMEOUT next to a rate-limit keyword, in a database error type
C12_Witness ==
    /\ p_pc = "classified"
    /\ p_error = [type |-> "OperationalError", msg |-> {"TIMEOUT", "429"}]
    /\ p_kind = "TIMEOUT"

\* C13: classify returns the kind of the earliest rule, in the order encoding,
\* timeout, network, rate-limit, server, auth, not-found, empty-result,
\* schema-mismatch, format/parse, database, whose condition the error meets,
\* and Unknown when it meets none
C13_FirstMatchingRule ==
    p_pc = "classified" =>
        LET hits == {i \in DOMAIN RuleOrder : RuleMatches(RuleOrder[i], p_error)}
        IN  IF hits = {} THEN p_kind = "UNKNOWN"
            ELSE \E i \in hits : /\ \A j \in hits : i <= j
                                 /\ p_kind = RuleOrder[i]

\* a message with a timeout and a network keyword is Timeout, one with a
\* rate-limit and a server keyword would be RateLimit
C13_Witness ==
    /\ p_pc = "classified"
    /\ p_error.msg = {"timed out", "Connection"}
    /\ p_kind = "TIMEOUT"

\* C14: delayFor(Network, baseDelay, a) = baseDelay * max(a, 1)
C14_NetworkDelay ==
    (p_pc = "delayed" /\ p_kind = "NETWORK")
        => p_delay = p_base * (IF p_attempt >= 1 THEN p_attempt ELSE 1)

\* C15: delayFor is baseDelay * 2^a + 5 for RateLimit, baseDelay + 2 for
\* EncodingError, baseDelay + a for Timeout, baseDelay * 2 for ServerError,
\* baseDelay * (a + 1) for SchemaMismatch, and baseDelay for AuthError, NotFound,
\* NoData, DataFormatError, DatabaseError and Unknown
C15_DelayTable ==
    p_pc = "delayed" =>
        /\ p_kind = "RATE_LIMIT" => p_delay = p_base * (2 ^ p_attempt) + 5
        /\ p_kind = "CHUNKED_ENCODING" => p_delay = p_base + 2
        /\ p_kind = "TIMEOUT" => p_delay = p_base + p_attempt
        /\ p_kind = "SERVER_ERROR" => p_delay = p_base * 2
        /\ p_kind = "PANDAS_MISMATCH" => p_delay = p_base * (p_attempt + 1)
        /\ p_kind \in {"AUTH_ERROR", "NOT_FOUND", "NO_DATA", "DATA_FORMAT_ERROR",
                       "DATABASE_ERROR", "UNKNOWN"} => p_delay = p_base

\* a rate-limit error on attempt 3 with base delay 2 waits 2 * 8 + 5 = 21
C15_Witness ==
    /\ p_pc = "delayed" /\ p_kind = "RATE_LIMIT"
    /\ p_base = 2 /\ p_attempt = 3 /\ p_delay = 21

----------------------------------------------------------------------------
\* The fetch loops safe_get_data (funds) and safely_get_market_data (stocks)

\* an attempt of a fetch has ended and its fetch is the last one made
FetchTraced == p_pc \in {"retry", "data", "failure"}

\* the fetch traced in pvars has returned None and its caller has taken note of it
FailureHandedOver ==
    IF task = "fundsync"
    THEN /\ f_attempt = 0 /\ f_idx >= 2
         /\ failed_types # <<>>
         /\ failed_types[Len(failed_types)] = fund_tasks[f_idx - 1]
    ELSE LET fetched == {i \in 1..(s_idx - 1) : MarketOrder[i] \in s_fetched}
         IN  /\ s_attempt = 0 /\ fetched # {}
             /\ \E i \in fetched : /\ \A j \in fetched : j <= i
                                   /\ MarketOrder[i] \in s_fetch_failed

\* C16: every fetch ends after at most max_retry calls of the api function and
\* hands its caller one outcome, data or failure, never an exception and never
\* nothing; when every attempt fails retryably it makes exactly max_retry calls
C16_FetchEndsWithOutcome ==
    /\ s_pc # "killed"
    /\ f_attempt < max_retry /\ s_attempt < max_retry
    /\ FetchTraced => p_attempt + 1 <= max_retry
    /\ (p_pc = "failure" /\ (p_retry \/ p_kind = "")) => p_attempt + 1 = max_retry
    /\ p_pc = "failure" => FailureHandedOver

\* C17: an error of a kind that is not retried (AuthError, NotFound,
\* DataFormatError at any attempt, RateLimit at attempt index >= 2) ends the fetch
\* at once with failure: no sleep follows it and no further call is made
C17_TerminalErrorFailsAtOnce ==
    (/\ FetchTraced
     /\ \/ p_kind \in {"AUTH_ERROR", "NOT_FOUND", "DATA_FORMAT_ERROR"}
        \/ p_kind = "RATE_LIMIT" /\ p_attempt >= 2)
        => /\ p_pc = "failure"
           /\ p_delay = NoSleep
           /\ FailureHandedOver

\* the second attempt of a funds fetch raises an error classified NOT_FOUND
C17_Witness ==
    /\ task = "fundsync" /\ p_pc = "failure"
    /\ p_kind = "NOT_FOUND" /\ p_attempt = 1
    /\ p_delay = NoSleep /\ FailureHandedOver

\* C18: within one fetch every call of the api function after the first comes
\* after a sleep of _get_retry_delay(kind, base delay, attempt index), whichever
\* way the earlier attempt failed to deliver non-empty data
C18_SleepBeforeEveryRetry ==
    p_pc = "retry" =>
        /\ p_delay # NoSleep
        /\ p_kind # "" => p_delay = _get_retry_delay(p_kind, p_base, p_attempt)

----------------------------------------------------------------------------
\* Row-level failures in the update workers

\* in the committed update batches executed in `mode`, exactly the symbols whose
\* row outcome is in `reported` are in failed_update_symbols, and the updated rows
\* belong to a batch counted as applied
ReportedExactly(mode, reported) ==
    \A k \in DOMAIN s_upd_exec :
        (s_upd_exec[k].mode = mode /\ s_upd_exec[k].committed) =>
            LET batch == Batches(exist_records, batch_size)[k]
            IN  \A i \in DOMAIN batch :
                   /\ batch[i].symbol \in failed_update_symbols
                         <=> s_upd_exec[k].rows[i] \in reported
                   /\ s_upd_exec[k].rows[i] = "updated" =>
                         s_upd_status[k] \in {"done", "applied"}

\* C19: in an update batch whose whole-batch execution succeeds and commits,
\* exactly the keys whose update affected zero rows are in the failed-keys list,
\* and the updates of the other rows are kept
C19_ZeroRowKeysReported == ReportedExactly("batch", {"zero"})

\* C20: when the whole-batch execution of an update batch throws, the worker
\* (stocks and funds) executes the records one at a time, adds exactly the keys
\* whose own statement throws or affects zero rows to the failed-keys list and
\* keeps the other rows, instead of failing the whole batch
C20_FallbackRowByRow ==
    /\ ReportedExactly("fallback", {"zero", "threw"})
    /\ \A k \in DOMAIN upd_exec : upd_exec[k] = "threw" => upd_status[k] # "failed"

----------------------------------------------------------------------------
\* Counts reported by the batch workers

\* rows that the update batches among 1..n whose result was added to the total
\* changed in stock_info
RECURSIVE RowsUpdated(_)
RowsUpdated(n) ==
    IF n = 0 THEN 0
    ELSE RowsUpdated(n - 1) +
         (IF s_upd_status[n] = "applied" THEN rowcount(s_upd_exec[n].rows) ELSE 0)

\* C21: the applied count a batch worker reports is the number of records of its
\* batch that were applied to storage, so the updated total of a market counts no
\* record whose statement failed or affected zero rows
C21_AppliedCountIsExact ==
    s_pc = "update_run" => total_updated = RowsUpdated(Len(s_upd_exec))

\* C22: when the transaction of an insert or update batch fails, none of its
\* records takes effect in storage and the batch adds 0 to the applied totals:
\* a fund row is Live only if it was read as Live or an insert batch holding its
\* code committed, a failed stock update batch left no row changed, and the
\* totals of a market are the record counts of its committed batches
C22_FailedBatchRolledBack ==
    /\ task = "fundsync" =>
          \A c \in DbCodes :
              (fund_db[c] = "L" /\ c \notin existing_codes)
                  => c \in CodesOf(AppliedRecords(ins_batches, ins_status))
    /\ s_pc \in {"update_run", "insert_run", "mark"} =>
          total_updated =
              Len(AppliedRecords(Batches(exist_records, batch_size), s_upd_status))
    /\ s_pc = "insert_run" =>
          total_inserted =
              Len(AppliedRecords(Batches(new_records, batch_size), s_ins_status))
    /\ \A k \in DOMAIN s_upd_exec :
          s_upd_status[k] = "failed" => ~s_upd_exec[k].committed

\* a fund insert batch failed next to one that committed: only the code of the
\* committed batch became Live
C22_Witness ==
    /\ f_pc = "insert_run" /\ Len(ins_status) = 2
    /\ ins_status[1] = "failed" /\ ins_status[2] = "applied"
    /\ CodesOf(ins_batches[1]) = {"X"} /\ CodesOf(ins_batches[2]) = {"Y"}
    /\ fund_db["X"] = "absent" /\ fund_db["Y"] = "L"

----------------------------------------------------------------------------
\* The aggregate of a market

\* the duration sum of the committed batches among 1..n
RECURSIVE AppliedDuration(_, _)
AppliedDuration(status, n) ==
    IF n = 0 THEN 0
    ELSE AppliedDuration(status, n - 1) +
         (IF status[n] = "applied" THEN Duration(n) ELSE 0)

\* the symbols the update workers that have run appended, whatever their order
SymbolsReported ==
    UNION {FailedSymbols(Batches(exist_records, batch_size)[k],
                         s_upd_exec[k].mode, s_upd_exec[k].rows) :
           k \in {j \in DOMAIN s_upd_exec : s_upd_exec[j].mode \in {"batch", "fallback"}}}

----------------------------------------------------------------------------
\* Who writes the aggregate

\* the aggregate of process_market_records
aggregate == <<total_updated, total_update_duration, total_inserted,
               total_insert_duration, failed_update_symbols>>

\* a step taken by a thread of a stock pool: the worker of a pending batch returns
PoolWorkerStep ==
    \/ /\ s_pc = "update_run"
       /\ \E k \in DOMAIN s_upd_status :
             s_upd_status[k] = "pending" /\ s_upd_status'[k] # "pending"
    \/ /\ s_pc = "insert_run"
       /\ \E k \in DOMAIN s_ins_status :
             s_ins_status[k] = "pending" /\ s_ins_status'[k] # "pending"

\* C24: no part of the aggregate is written by a concurrently running worker: a
\* worker only returns its result, and the counts, the durations and the failed keys
\* are folded by the single dispatching thread
C24_WorkersOnlyReturn == [][PoolWorkerStep => UNCHANGED aggregate]_vars

----------------------------------------------------------------------------
\* Keys of the batches

\* the batches of a pool, pairwise, share no code
KeysDisjoint(batches) ==
    \A j, k \in DOMAIN batches :
        j # k => CodesOf(batches[j]) \cap CodesOf(batches[k]) = {}

\* C25: no business key is in the batches of two different workers: the insert and
\* the update record lists of a funds run hold each key at most once, also when
\* several sources, or several rows of one source, deliver the same key
C25_NoKeyInTwoWorkers ==
    task = "fundsync" =>
        /\ KeysDisjoint(ins_batches)
        /\ KeysDisjoint(upd_batches)
        /\ CodesOf(Flatten(ins_batches)) \cap CodesOf(Flatten(upd_batches)) = {}

----------------------------------------------------------------------------
\* Order of fetch, diff and batch application

\* the storage calls that write: mark deleted, insert, update
WriteCalls == {"mark_deleted", "insert", "update"}

\* the phases of sync_task_runner (funds) before analyze_data_differences returned
BeforeDiff == {"idle", "collect", "no_engine", "aborted", "integrate", "existing", "diff"}

----------------------------------------------------------------------------
\* The phases of a run

\* the phase a funds run is in: 0 Idle, 1 Fetching, 2 Aborted, 3 Cleaning,
\* 4 Reconciling, 5 Syncing, 6 Completed, 7 ended by an exception
FundPhase(pc) ==
    CASE pc \in {"idle", "connect"} -> 0
      [] pc = "collect" -> 1
      [] pc = "aborted" -> 2
      [] pc = "integrate" -> 3
      [] pc \in {"existing", "diff"} -> 4
      [] pc \in {"mark", "insert", "insert_run", "update", "update_run"} -> 5
      [] pc = "completed" -> 6
      [] OTHER -> 7

\* the phase a stocks run is in, numbered as in FundPhase
StockPhase(pc) ==
    CASE pc \in {"idle", "construct"} -> 0
      [] pc \in {"read_existing", "loop", "fetch"} -> 1
      [] pc = "clean" -> 3
      [] pc \in {"update", "update_run", "insert_run", "mark"} -> 5
      [] pc = "done" -> 6
      [] OTHER -> 7

\* a phase after Fetching has begun in the run: a fetched table went through
\* extract_fund_values, or a market was handed to its cleaner or synced
LaterPhaseBegun ==
    \/ success_types # {} \/ FundPhase(f_pc) \in 3..6
    \/ s_synced # {} \/ StockPhase(s_pc) \in 3..6

\* this step calls an upstream source: an attempt of safe_get_data on the source at
\* f_idx, or of safely_get_market_data on the market at s_idx
FetchPerformed ==
    \/ Collecting /\ <<f_idx, f_attempt>>' # <<f_idx, f_attempt>>
    \/ s_pc = "fetch" /\ MarketOrder[s_idx] \in s_fetched' /\ s_pc' # "killed"

\* C27: a run only moves forward through Idle, Fetching, then Aborted or Cleaning,
\* Reconciling, Syncing, Completed; Aborted and Completed are never left; and once
\* cleaning, reconciling or syncing has begun, no upstream fetch is performed again
C27_PhasesOnlyForward ==
    [][/\ FundPhase(f_pc') >= FundPhase(f_pc)
       /\ StockPhase(s_pc') >= StockPhase(s_pc)
       /\ f_pc \in {"aborted", "completed"} => f_pc' = f_pc
       /\ LaterPhaseBegun => ~FetchPerformed
      ]_vars

----------------------------------------------------------------------------
\* Trading hours

\* the trading intervals of a market, as <<start, end>>
TradingIntervals(market, is_dst) ==
    CASE market = "A" ->
            {<<time(9, 30, 0), time(11, 30, 0)>>, <<time(13, 0, 0), time(15, 0, 0)>>}
      [] market = "HK" ->
            {<<time(9, 30, 0), time(12, 0, 0)>>, <<time(13, 0, 0), time(16, 0, 0)>>}
      [] market = "US" ->
            IF is_dst
            THEN {<<time(21, 30, 0), time(23, 59, 59)>>, <<time(0, 0, 0), time(4, 0, 0)>>}
            ELSE {<<time(22, 30, 0), time(23, 59, 59)>>, <<time(0, 0, 0), time(5, 0, 0)>>}

\* t lies in the interval widened by tol seconds at both ends, on the clock face
InWidened(t, interval, tol) ==
    (t - (interval[1] - tol)) % DaySeconds <= (interval[2] - interval[1]) + 2 * tol

\* is_dst as check_market_open_status computes it in the month of the run
IsDst(market) == IF market = "US" THEN 3 <= s_month /\ s_month <= 11 ELSE TRUE

\* the trading-hours check of a market accepts t exactly when t lies in one of its
\* widened trading intervals
CheckIsWidenedInterval(market, t) ==
    check_func(market, t, IsDst(market), tolerance_seconds)
        <=> \E interval \in TradingIntervals(market, IsDst(market)) :
                InWidened(t, interval, tolerance_seconds)

\* the check of the market is true at the clock reading of the run or two hours before
OpenNowOrBefore(market) ==
    \/ check_func(market, s_now, IsDst(market), tolerance_seconds)
    \/ check_func(market, delayed(s_now, 2), IsDst(market), tolerance_seconds)

\* C28: a stock market is fetched and synced in a run if and only if its
\* trading-hours check is true at the current time or two hours before it, each
\* check accepting exactly the times in a trading interval widened by 30 seconds at
\* both ends; a market for which both checks are false causes no fetch and no write
C28_OpenMarketsSynced ==
    task = "stocksync" =>
        \A market \in Markets :
            /\ CheckIsWidenedInterval(market, s_now)
            /\ CheckIsWidenedInterval(market, delayed(s_now, 2))
            /\ ~OpenNowOrBefore(market) =>
                  market \notin s_fetched \cup s_synced \cup market_result
            /\ (s_pc = "done" /\ factory_ok) =>
                  /\ market \in s_fetched <=> OpenNowOrBefore(market)
                  /\ market \in s_synced <=> OpenNowOrBefore(market)

----------------------------------------------------------------------------
\* The status column

----------------------------------------------------------------------------
\* The fund cleaner

\* C30: every record extract_fund_values returned has a non-null price: a row whose
\* price cell is null or cannot be parsed as a number is absent from the records a
\* source delivered
C30_CleanerDropsNullPrices ==
    \A t \in FundTypes :
        \A i \in DOMAIN fund_data[t] : fund_data[t][i].price \notin {None, NaN}

----------------------------------------------------------------------------
\* The record cleaners

\* some numeric, percentage or timestamp cell of the table cannot be parsed
HasUnparseableCell(table) ==
    \E i \in DOMAIN table.rows :
        LET row == table.rows[i]
        IN  \/ row.price = "bad"
            \/ c_cleaner \in Markets /\ "bad" \in {row.volume, row.time, row.amplitude}

\* no cell of the row is null or unparseable
WellFormedRow(row) ==
    /\ row.price = "10"
    /\ c_cleaner \in Markets =>
          /\ row.volume = "10"
          /\ c_cleaner \in {"A", "HK"} => row.time = "09:30:00"
          /\ c_cleaner = "US" => row.amplitude \in {NaN, "5%"}
    /\ c_cleaner \in FundTypes => row.code # ""

\* C31: a cleaner called on a table with an unparseable numeric, percentage or
\* timestamp cell returns instead of raising; no returned record holds the
\* unparseable cell (it is null or its row is gone) and every well-formed row of the
\* table is among the returned records
C31_BadCellNeverRaises ==
    (c_pc \in {"returned", "raised"} /\ HasUnparseableCell(c_table)) =>
        /\ c_pc = "returned"
        /\ \A j \in DOMAIN c_out :
              /\ c_out[j].price # "bad"
              /\ c_cleaner \in Markets =>
                    "bad" \notin {c_out[j].volume, c_out[j].datetime, c_out[j].amplitude}
        /\ \A i \in DOMAIN c_table.rows :
              WellFormedRow(c_table.rows[i]) =>
                 \E j \in DOMAIN c_out :
                    /\ c_out[j].price = "10"
                    /\ IF c_cleaner \in Markets
                       THEN c_out[j].symbol = c_table.rows[i].symbol
                       ELSE c_out[j].code = c_table.rows[i].code

----------------------------------------------------------------------------
\* One market's reconciliation

\* the symbols with a Live row in the market
LiveSymbols(rows, market) == {symbol \in Codes : <<symbol, market>> \in LiveRows(rows)}

\* C33: syncing a market leaves every row of every other market as it is; the
\* existing symbols handed to its reconciliation are symbols with a Live row in that
\* market, and removed_symbols is a subset of them
C33_OtherMarketsUntouched ==
    [][/\ \A market \in Markets \ {market_name} : stock_info'[market] = stock_info[market]
       /\ (r_pc = "read" /\ r_pc' = "reconcile") =>
             existing_symbols' \subseteq LiveSymbols(stock_info, market_name)
       /\ r_removed_symbols' \subseteq existing_symbols'
      ]_vars

\* symbol X was Live in the synced market and in another one and was not delivered:
\* it is Deleted in the synced market only, and the update of Y changed the synced
\* market's row only
C33_Witness ==
    /\ r_pc = "raised"
    /\ "X" \in r_removed_symbols
    /\ stock_info[market_name]["X"].status = "D"
    /\ stock_info[market_name]["Y"] = [status |-> "L", quote |-> "new"]
    /\ \E market \in Markets \ {market_name} :
          /\ stock_info[market]["X"] = [status |-> "L", quote |-> "old"]
          /\ stock_info[market]["Y"] = [status |-> "L", quote |-> "old"]

\* C34: once a market's cleaned rows are classified, every row is in exactly one of
\* exist_records (its symbol is an existing symbol) and new_records (it is not), both
\* in table order; removed_symbols is the existing symbols without the symbols of
\* the rows; and the chunked branch yields what classifying the table whole yields
C34_ChunkedEqualsWhole ==
    r_pc \in {"update", "insert", "mark", "returned", "raised"} =>
        /\ \A i \in DOMAIN cleaned_dataframe :
              LET r == cleaned_dataframe[i]
                  in_exist == \E j \in DOMAIN r_exist_records : r_exist_records[j] = r
                  in_new == \E j \in DOMAIN r_new_records : r_new_records[j] = r
              IN  /\ in_exist <=> r.symbol \in existing_symbols
                  /\ in_new <=> r.symbol \notin existing_symbols
        /\ Len(r_exist_records) + Len(r_new_records) = Len(cleaned_dataframe)
        /\ r_exist_records = chunk_exist(cleaned_dataframe, existing_symbols)
        /\ r_new_records = chunk_new(cleaned_dataframe, existing_symbols)
        /\ r_removed_symbols = existing_symbols \ SymbolsOf(cleaned_dataframe)

\* a table of more rows than a chunk, classified in chunks, with rows of both kinds
\* in its last chunk and in an earlier one
C34_Witness ==
    /\ r_pc = "update"
    /\ Len(cleaned_dataframe) > chunk_size
    /\ chunk_i >= Len(cleaned_dataframe)
    /\ Len(r_exist_records) >= 2 /\ r_new_records # <<>>
    /\ cleaned_dataframe[Len(cleaned_dataframe)].symbol \in existing_symbols
    /\ r_removed_symbols = {}

----------------------------------------------------------------------------
\* Consecutive cycles

----------------------------------------------------------------------------
\* The storage after a funds run

\* C35: when a funds run completes (the coverage gate passed, the mark-deleted
\* statement and every insert and update batch committed) and no merged code had a
\* Deleted row when the run read the storage, the codes with a Live row are exactly
\* the codes of the merged records
C35_LiveEqualsMerged ==
    (/\ task = "fundsync" /\ f_pc = "completed"
     /\ \A c \in CodesOf(final_funds) : fund_db[c] # "D")
        => get_existing_fund_codes(fund_db) = CodesOf(final_funds)

\* a completed run that marked Z deleted, inserted X and updated Y
C35_Witness ==
    /\ task = "fundsync" /\ f_pc = "completed"
    /\ "read_existing" \in storage_calls
    /\ success_types = FundTypes
    /\ marked_deleted = {"Z"} /\ new_codes = {"X"} /\ update_codes = {"Y"}
    /\ ~AnyWith(ins_status, "failed") /\ ~AnyWith(upd_status, "failed")
    /\ fund_db = [c \in DbCodes |-> IF c = "Z" THEN "D" ELSE "L"]

----------------------------------------------------------------------------
\* A market of which nothing is left after cleaning, and a failed read

\* C36: a market whose cleaning leaves no row is synced to its end and not aborted:
\* nothing is to insert or to update, removed_symbols is every existing symbol of the
\* market, the mark-deleted statement has run for them and process_market_records
\* has returned
C36_EmptyCleaningMarksAll ==
    (r_pc \in {"returned", "raised"} /\ cleaned_dataframe = <<>>) =>
        /\ r_exist_records = <<>> /\ r_new_records = <<>>
        /\ r_removed_symbols = existing_symbols
        /\ r_pc = "returned"

\* C37: whatever map get_existing_stock_symbols_by_market returned (the whole map,
\* or the part built when the query raised), the run is not aborted and every market
\* whose fetch delivered data is reconciled against it
C37_ReadFailureStillReconciles ==
    (task = "stocksync" /\ s_pc = "done" /\ "read_existing" \in storage_calls) =>
        /\ runner_result.success
        /\ s_fetch_ok \subseteq s_synced

----------------------------------------------------------------------------
\* The order of the operation kinds

\* C38: batches of different kinds never overlap. Stocks: when the insert batches are
\* submitted every update worker has returned, no update worker runs afterwards,
\* and when mark-deleted is issued every update and insert worker has returned.
\* Funds: the insert batches are submitted after mark-deleted has returned, the
\* update batches after every insert worker has returned, and mark-deleted is
\* issued before any batch is submitted
C38_KindsNeverOverlap ==
    [][/\ (s_pc # "insert_run" /\ s_pc' = "insert_run") =>
             ~AnyWith(s_upd_status, "pending")
       /\ AnyWith(s_ins_status', "pending") => ~AnyWith(s_upd_status', "pending")
       /\ (s_pc = "mark" /\ s_pc' # "mark") =>
             /\ ~AnyWith(s_upd_status, "pending")
             /\ ~AnyWith(s_ins_status, "pending")
       /\ ("mark_deleted" \notin storage_calls /\ "mark_deleted" \in storage_calls') =>
             ins_batches = <<>> /\ upd_batches = <<>>
       /\ (f_pc # "insert_run" /\ f_pc' = "insert_run") =>
             /\ removed_codes # {} => marked_deleted = removed_codes
             /\ upd_batches = <<>>
       /\ (f_pc # "update_run" /\ f_pc' = "update_run") =>
             ~AnyWith(ins_status, "pending")
       /\ AnyWith(upd_status', "pending") => ~AnyWith(ins_status', "pending")
      ]_vars

\* a stocks sync that ran update, insert and mark-deleted, with two batches of each
\* pool, one of them failed
C38_Witness ==
    /\ task = "stocksync" /\ s_pc = "mark"
    /\ Len(s_upd_status) = 2 /\ Len(s_ins_status) = 2
    /\ AnyWith(s_upd_status, "failed") /\ AnyWith(s_ins_status, "applied")
    /\ removed_symbols # {}


\* C39: under a clock that never goes back, MemoryCache.get(key) returns a
\* value only if that value is the one of the latest set(key, value, ttl) not
\* followed by a delete of the key or a clear, and the time at which get
\* answers is not later than that set's time plus its ttl.
C39_GetReturnsLatestLiveSet ==
    (task = "cache" /\ cache_call.name = "get" /\ cache_call.returned # None) =>
        /\ cache_call.key \in DOMAIN latest_set
        /\ cache_call.returned = latest_set[cache_call.key].value
        /\ clock <= latest_set[cache_call.key].time + latest_set[cache_call.key].ttl

\* get answers "v2", set over an earlier live "v1", at the last moment of its ttl
C39_Witness ==
    /\ task = "cache"
    /\ cache_call = [name |-> "get", key |-> "k1", returned |-> "v2"]
    /\ latest_set["k1"].time > 0
    /\ latest_set["k1"].ttl > 0
    /\ clock = latest_set["k1"].time + latest_set["k1"].ttl


\* the admitted calls of every client number at most max_requests in every
\* window (t, t + window_seconds], a call counted at the time it recorded
AtMostMaxRecorded ==
    \A c \in Clients : \A t \in (0 - MaxWindow)..MaxClock :
        Cardinality({i \in DOMAIN admitted[c] :
                        /\ admitted[c][i].recorded > t
                        /\ admitted[c][i].recorded <= t + window_seconds}) <= max_requests

\* the same, a call counted at the time it was answered
AtMostMaxFinished ==
    \A c \in Clients : \A t \in (0 - MaxWindow)..MaxClock :
        Cardinality({i \in DOMAIN admitted[c] :
                        /\ admitted[c][i].finished > t
                        /\ admitted[c][i].finished <= t + window_seconds}) <= max_requests

\* the recorded times of a client, absent and empty alike
RecordedOf(requests, c) == IF c \in DOMAIN requests THEN requests[c] ELSE <<>>

\* every member of sequence s is a member of sequence r
WithinSeq(s, r) == \A i \in DOMAIN s : \E j \in DOMAIN r : s[i] = r[j]

\* C40: in sequential requests under a clock that never goes back, a client
\* is admitted at most max_requests times within any interval of
\* window_seconds (the interval open at its start, the calls counted either at
\* the time they record or at the time they are answered); a rejected call
\* leaves no record; a call of one client leaves the records of the others.
C40_AtMostMaxPerWindow ==
    [][ /\ AtMostMaxRecorded' \/ AtMostMaxFinished'
        /\ limiter_call'.allowed = "False" =>
              WithinSeq(RecordedOf(_requests', limiter_call'.client),
                        RecordedOf(_requests, limiter_call'.client))
        /\ \A c \in Clients \ {limiter_call'.client} :
              RecordedOf(_requests', c) = RecordedOf(_requests, c) ]_vars

====
